---- MODULE Spec2Model ----
(***************************************************************************)
(* A model of the sanabotti word-chain validation pipeline:                *)
(*   - RulesValidator        (src/src/validation/rules.rs)                 *)
(*   - GameStateActor        (src/src/actors/game_state.rs)                *)
(*   - LLMValidatorActor     (src/src/actors/llm_validator.rs)             *)
(*   - LLMValidator          (src/src/validation/llm.rs)                   *)
(*   - DictionaryValidator   (src/src/validation/dictionary.rs)            *)
(*   - WordValidatorActor    (src/src/actors/word_validator.rs)            *)
(* A word is a sequence of one-character strings. An Option<T> is a        *)
(* sequence of length 0 (None) or 1 (Some).                                *)
(***************************************************************************)
EXTENDS Integers, Sequences, FiniteSets, TLC

VARIABLES
    used_words,           \* RulesValidator.used_words
    op,                   \* the last call made: its name, arguments and return value
    word_history,         \* GameStateActor.word_history
    last_valid_word,      \* GameStateActor.last_valid_word
    last_game_rule_word,  \* GameStateActor.last_game_rule_word
    registered,           \* the entries registered since the last reset, in order
    accepted,             \* the words accepted or added since the last reset
    mailbox,              \* LLMValidatorActor's mailbox (FIFO)
    queue,                \* LLMValidatorActor.queue
    last_batch_time,      \* LLMValidatorActor.last_batch_time
    now,                  \* the clock (seconds)
    next_poll,            \* when the run_interval callback fires next
    flights,              \* the flush threads spawned so far
    mutex,                \* holder of the Arc<Mutex<LLMValidator>>: 0 or a flight
    cache,                \* LLMValidator.cache
    outbox,               \* outbox[f]: the messages flush thread f sent, in order
    sent,                 \* number of ValidateProperNoun messages sent so far
    file,                 \* the dictionary file: None (unreadable) or Some(lines)
    loaded,               \* what DictionaryValidator::new returned, "none" before
    dictionary,           \* DictionaryValidator.words
    test,                 \* test_rules_validator: its inputs, position and results
    delivered,            \* number of ValidateWord messages handled so far
    threads,              \* threads[m]: the thread spawned for message id m
    game_mailbox,         \* GameStateActor's mailbox (FIFO)
    sink,                 \* the messages sent to the MessageReactionActor, in order
    resets                \* number of ResetGame messages sent so far

vars == <<used_words, op, word_history, last_valid_word, last_game_rule_word,
          registered, accepted, mailbox, queue, last_batch_time, now, next_poll,
          flights, mutex, cache, outbox, sent, file, loaded, dictionary,
          test, delivered, threads, game_mailbox, sink, resets>>

rulesVars == <<used_words, accepted>>
gameVars  == <<word_history, last_valid_word, last_game_rule_word, registered>>
batchVars == <<mailbox, queue, last_batch_time, now, next_poll, flights, mutex,
               cache, outbox, sent>>
dictVars  == <<file, loaded, dictionary>>
pipeVars  == <<delivered, threads, game_mailbox, sink, resets>>
extVars   == <<dictVars, test, pipeVars>>

(***************************************************************************)
(* Bounds                                                                  *)
(***************************************************************************)
MaxLen == 3      \* longest raw word given to the rule check
MaxRegs == 3     \* registrations between two resets
MaxSends == 3    \* ValidateProperNoun messages sent to the LLMValidatorActor
MaxTime == 20    \* the clock never goes beyond this

(***************************************************************************)
(* Characters and normalisation                                            *)
(***************************************************************************)
Chars == {"a", "b", "A", " "}

RawWords == UNION {[1..n -> Chars] : n \in 0..MaxLen}

None == << >>
Some(x) == <<x>>

IsWhitespace(c) == c = " "

\* char::to_lowercase on the modelled characters
LowerChar(c) == IF c = "A" THEN "a" ELSE IF c = "B" THEN "b" ELSE c

\* char::to_uppercase on the modelled characters
UpperChar(c) == IF c = "a" THEN "A" ELSE IF c = "b" THEN "B" ELSE c

RECURSIVE TrimStart(_)
TrimStart(w) ==
    IF w # << >> /\ IsWhitespace(Head(w)) THEN TrimStart(Tail(w)) ELSE w

RECURSIVE TrimEnd(_)
TrimEnd(w) ==
    IF w # << >> /\ IsWhitespace(w[Len(w)])
    THEN TrimEnd(SubSeq(w, 1, Len(w) - 1))
    ELSE w

\* str::trim
Trim(w) == TrimEnd(TrimStart(w))

\* str::to_lowercase
ToLowercase(w) == [i \in 1..Len(w) |-> LowerChar(w[i])]

\* word.trim().to_lowercase()
Normalize(w) == ToLowercase(Trim(w))

Abs(x) == IF x < 0 THEN -x ELSE x

(***************************************************************************)
(* check_one_letter_difference                                             *)
(* Indices are 0-based as in the source; chars[i] is written chars[i+1].   *)
(***************************************************************************)

\* EqualLengthLoop without the early return and with "at least one" at the end
RECURSIVE EqualLengthLoopAtLeastOne(_, _, _, _)
EqualLengthLoopAtLeastOne(chars1, chars2, i, differences) ==
    IF i >= Len(chars1)
    THEN IF differences >= 1
         THEN [valid |-> TRUE, span |-> None]
         ELSE [valid |-> FALSE, span |-> Some(<<0, Len(chars2)>>)]
    ELSE IF chars1[i + 1] # chars2[i + 1]
         THEN EqualLengthLoopAtLeastOne(chars1, chars2, i + 1, differences + 1)
         ELSE EqualLengthLoopAtLeastOne(chars1, chars2, i + 1, differences)

\* EqualLengthLoop accepting "at most one" difference, so also no change
RECURSIVE EqualLengthLoopAtMostOne(_, _, _, _)
EqualLengthLoopAtMostOne(chars1, chars2, i, differences) ==
    IF i >= Len(chars1)
    THEN [valid |-> TRUE, span |-> None]
    ELSE IF chars1[i + 1] # chars2[i + 1]
         THEN IF differences + 1 > 1
              THEN [valid |-> FALSE, span |-> None]
              ELSE EqualLengthLoopAtMostOne(chars1, chars2, i + 1, differences + 1)
         ELSE EqualLengthLoopAtMostOne(chars1, chars2, i + 1, differences)

\* the for loop of the equal-length branch, from index i with the count so far
RECURSIVE EqualLengthLoop(_, _, _, _)
EqualLengthLoop(chars1, chars2, i, differences) ==
    IF i >= Len(chars1)
    THEN \* One letter change is valid, no change is invalid
         IF differences = 1
         THEN [valid |-> TRUE, span |-> None]
         ELSE [valid |-> FALSE, span |-> Some(<<0, Len(chars2)>>)]
    ELSE IF chars1[i + 1] # chars2[i + 1]
         THEN IF differences + 1 > 1
              THEN [valid |-> FALSE, span |-> None]
              ELSE EqualLengthLoop(chars1, chars2, i + 1, differences + 1)
         ELSE EqualLengthLoop(chars1, chars2, i + 1, differences)

\* SkipOneLoop advancing both cursors at the first mismatch
RECURSIVE SkipOneLoopBothCursors(_, _, _, _, _)
SkipOneLoopBothCursors(shorter, longer, short_idx, long_idx, found_difference) ==
    IF ~(short_idx < Len(shorter) /\ long_idx < Len(longer))
    THEN [valid |-> TRUE, span |-> None]
    ELSE IF shorter[short_idx + 1] = longer[long_idx + 1]
         THEN SkipOneLoopBothCursors(shorter, longer, short_idx + 1, long_idx + 1,
                                     found_difference)
         ELSE IF found_difference
              THEN [valid |-> FALSE, span |-> None]
              ELSE SkipOneLoopBothCursors(shorter, longer, short_idx + 1,
                                          long_idx + 1, TRUE)

\* the while loop of the unequal-length branch
RECURSIVE SkipOneLoop(_, _, _, _, _)
SkipOneLoop(shorter, longer, short_idx, long_idx, found_difference) ==
    IF ~(short_idx < Len(shorter) /\ long_idx < Len(longer))
    THEN [valid |-> TRUE, span |-> None]
    ELSE IF shorter[short_idx + 1] = longer[long_idx + 1]
         THEN SkipOneLoop(shorter, longer, short_idx + 1, long_idx + 1,
                          found_difference)
         ELSE IF found_difference
              THEN [valid |-> FALSE, span |-> None]
              ELSE SkipOneLoop(shorter, longer, short_idx, long_idx + 1, TRUE)

\* check_one_letter_difference without the test of the length difference
check_one_letter_difference_no_length_test(word1, word2) ==
    LET len1 == Len(word1)
        len2 == Len(word2)
    IN  IF len1 = len2
        THEN EqualLengthLoop(word1, word2, 0, 0)
        ELSE IF len1 < len2
             THEN SkipOneLoop(word1, word2, 0, 0, FALSE)
             ELSE SkipOneLoop(word2, word1, 0, 0, FALSE)

check_one_letter_difference(word1, word2) ==
    LET len1 == Len(word1)
        len2 == Len(word2)
    IN  IF Abs(len1 - len2) > 1
        THEN [valid |-> FALSE, span |-> None]
        ELSE IF len1 = len2
             THEN EqualLengthLoop(word1, word2, 0, 0)
             ELSE IF len1 < len2
                  THEN SkipOneLoop(word1, word2, 0, 0, FALSE)
                  ELSE SkipOneLoop(word2, word1, 0, 0, FALSE)

(***************************************************************************)
(* RulesValidator                                                          *)
(***************************************************************************)

\* validate_move without the test of used_words
validate_move_without_used_test(used, previous_word, new_word) ==
    LET previous == Normalize(previous_word)
        new == Normalize(new_word)
    IN  IF ~check_one_letter_difference(previous, new).valid
        THEN [result |-> "RuleViolation", used |-> used]
        ELSE [result |-> "Ok", used |-> used \cup {new}]

\* validate_move: the value returned and the set used_words afterwards
validate_move(used, previous_word, new_word) ==
    LET previous == Normalize(previous_word)
        new == Normalize(new_word)
    IN  IF new \in used
        THEN [result |-> "AlreadyUsed", used |-> used]
        ELSE IF ~check_one_letter_difference(previous, new).valid
             THEN [result |-> "RuleViolation", used |-> used]
             ELSE [result |-> "Ok", used |-> used \cup {new}]

\* is_valid_move
is_valid_move(used, previous_word, new_word) ==
    LET r == validate_move(used, previous_word, new_word)
    IN  [result |-> r.result = "Ok", used |-> r.used]

\* add_word inserting the word as given
add_word_as_given(used, word) == used \cup {word}

\* add_word replacing the set
add_word_replacing(used, word) == {Normalize(word)}

\* add_word
add_word(used, word) == used \cup {Normalize(word)}

\* word_count
word_count(used) == Cardinality(used)

\* reset leaving the set as it is
reset_keeping_words(used) == used

\* reset
reset(used) == {}

NoOp == [name |-> "none", previous |-> None, candidate |-> None,
         result |-> "none", mid |-> 0]

(***************************************************************************)
(* The initial values of the components                                    *)
(***************************************************************************)
RulesInit ==
    /\ used_words = {}
    /\ accepted = {}

GameInit ==
    /\ word_history = << >>
    /\ last_valid_word = None
    /\ last_game_rule_word = None
    /\ registered = << >>

BatchInit ==
    /\ mailbox = << >>
    /\ queue = << >>
    /\ last_batch_time = 0
    /\ now = 0
    /\ next_poll = 10
    /\ flights = << >>
    /\ mutex = 0
    /\ cache = << >>
    /\ outbox = << >>
    /\ sent = 0

\* no dictionary file given and none loaded
DictInit ==
    /\ file = None
    /\ loaded = "none"
    /\ dictionary = {}

\* test_rules_validator not running
TestInit == test = [pc |-> "off"]

\* no message delivered yet
PipeInit ==
    /\ delivered = 0
    /\ threads = << >>
    /\ game_mailbox = << >>
    /\ sink = << >>
    /\ resets = 0

ExtInit == DictInit /\ TestInit /\ PipeInit

(***************************************************************************)
(* SpecMove: one call of validate_move on every input                      *)
(***************************************************************************)
MoveInit ==
    /\ \E p \in RawWords, c \in RawWords :
          /\ op = [name |-> "call", previous |-> Some(p), candidate |-> Some(c),
                   result |-> "none", mid |-> 0]
          /\ used_words \in SUBSET {Normalize(p), Normalize(c)}
          /\ accepted = used_words
    /\ GameInit
    /\ BatchInit
    /\ ExtInit

CallValidateMove ==
    /\ op.name = "call"
    /\ LET r == validate_move(used_words, op.previous[1], op.candidate[1])
       IN  /\ used_words' = r.used
           /\ accepted' = IF r.result = "Ok"
                           THEN accepted \cup {Normalize(op.candidate[1])}
                           ELSE accepted
           /\ op' = [op EXCEPT !.name = "validate_move", !.result = r.result]
    /\ UNCHANGED <<gameVars, batchVars, extVars>>

MoveNext == CallValidateMove

SpecMove == MoveInit /\ [][MoveNext]_vars

(***************************************************************************)
(* SpecRules: a RulesValidator driven by any sequence of its operations    *)
(***************************************************************************)

\* the texts given to the stateful components
Vocabulary ==
    {<<"a">>, <<"A">>, <<"b">>, <<"a", "b">>, <<" ", "a", "b">>,
     <<"a", "b", "b">>}

ValidateMove(p, c) ==
    LET r == validate_move(used_words, p, c)
    IN  /\ used_words' = r.used
        /\ accepted' = IF r.result = "Ok" THEN accepted \cup {Normalize(c)}
                        ELSE accepted
        /\ op' = [name |-> "validate_move", previous |-> Some(p),
                   candidate |-> Some(c), result |-> r.result, mid |-> 0]
        /\ UNCHANGED <<gameVars, batchVars, extVars>>

AddWord(w) ==
    /\ used_words' = add_word(used_words, w)
    /\ accepted' = accepted \cup {Normalize(w)}
    /\ op' = [name |-> "add_word", previous |-> None, candidate |-> Some(w),
               result |-> "none", mid |-> 0]
    /\ UNCHANGED <<gameVars, batchVars, extVars>>

Reset ==
    /\ used_words' = reset(used_words)
    /\ accepted' = {}
    /\ op' = [NoOp EXCEPT !.name = "reset"]
    /\ UNCHANGED <<gameVars, batchVars, extVars>>

RulesStart ==
    /\ RulesInit
    /\ op = NoOp
    /\ GameInit
    /\ BatchInit
    /\ ExtInit

RulesNext ==
    \/ \E p \in Vocabulary, c \in Vocabulary : ValidateMove(p, c)
    \/ \E w \in Vocabulary : AddWord(w)
    \/ Reset

SpecRules == RulesStart /\ [][RulesNext]_vars

(***************************************************************************)
(* SpecTest: the calls of test_rules_validator on an empty RulesValidator, *)
(* for every seed word w0, every w1 that changes one letter of it and      *)
(* every w2 that appends one letter to it:                                 *)
(*   add_word(w0); is_valid_move(w0, w1); is_valid_move(w0, w2);           *)
(*   is_valid_move(w2, w0); word_count()                                   *)
(* The values the test asserts on are recorded, not asserted.              *)
(***************************************************************************)

\* the texts that change one letter of w0
OneLetterChanged(w0) ==
    {w \in RawWords :
        /\ Len(Normalize(w)) = Len(Normalize(w0))
        /\ Cardinality({i \in 1..Len(Normalize(w0)) :
                            Normalize(w)[i] # Normalize(w0)[i]}) = 1}

\* the texts that append one letter to w0
OneLetterAppended(w0) ==
    {w \in RawWords :
        /\ Len(Normalize(w)) = Len(Normalize(w0)) + 1
        /\ SubSeq(Normalize(w), 1, Len(Normalize(w0))) = Normalize(w0)}

TestStart ==
    /\ RulesInit
    /\ op = NoOp
    /\ GameInit
    /\ BatchInit
    /\ DictInit
    /\ PipeInit
    /\ \E w0 \in RawWords :
          \E w1 \in OneLetterChanged(w0), w2 \in OneLetterAppended(w0) :
             test = [pc |-> "add_word", w0 |-> w0, w1 |-> w1, w2 |-> w2,
                     results |-> << >>, count |-> None]

\* validator.add_word("kissa")
TestAddWord ==
    /\ test.pc = "add_word"
    /\ used_words' = add_word(used_words, test.w0)
    /\ accepted' = accepted \cup {Normalize(test.w0)}
    /\ op' = [name |-> "add_word", previous |-> None,
               candidate |-> Some(test.w0), result |-> "none", mid |-> 0]
    /\ test' = [test EXCEPT !.pc = "change"]
    /\ UNCHANGED <<gameVars, batchVars, dictVars, pipeVars>>

\* one validator.is_valid_move(previous, candidate) of the test
TestMove(pc, previous, candidate, next) ==
    /\ test.pc = pc
    /\ LET r == is_valid_move(used_words, previous, candidate)
       IN  /\ used_words' = r.used
           /\ accepted' = IF r.result
                           THEN accepted \cup {Normalize(candidate)}
                           ELSE accepted
           /\ op' = [name |-> "is_valid_move", previous |-> Some(previous),
                      candidate |-> Some(candidate),
                      result |-> IF r.result THEN "true" ELSE "false",
                      mid |-> 0]
           /\ test' = [test EXCEPT !.pc = next,
                                    !.results = Append(@, r.result)]
    /\ UNCHANGED <<gameVars, batchVars, dictVars, pipeVars>>

\* validator.word_count()
TestWordCount ==
    /\ test.pc = "count"
    /\ test' = [test EXCEPT !.pc = "done",
                             !.count = Some(word_count(used_words))]
    /\ op' = [NoOp EXCEPT !.name = "word_count"]
    /\ UNCHANGED <<rulesVars, gameVars, batchVars, dictVars, pipeVars>>

TestNext ==
    \/ TestAddWord
    \/ TestMove("change", test.w0, test.w1, "add")
    \/ TestMove("add", test.w0, test.w2, "remove")
    \/ TestMove("remove", test.w2, test.w0, "count")
    \/ TestWordCount

SpecTest == TestStart /\ [][TestNext]_vars

(***************************************************************************)
(* DictionaryValidator                                                     *)
(* The file is its sequence of lines, as BufRead::lines yields them.       *)
(***************************************************************************)

\* the loop over reader.lines() inserting every line, blank or not
RECURSIVE read_words_keeping_blank(_, _)
read_words_keeping_blank(lines, acc) ==
    IF lines = << >> THEN acc
    ELSE read_words_keeping_blank(Tail(lines), acc \cup {Normalize(Head(lines))})

\* the loop over reader.lines(): the set words after the lines given
RECURSIVE read_words(_, _)
read_words(lines, acc) ==
    IF lines = << >> THEN acc
    ELSE LET word == Normalize(Head(lines))
         IN  read_words(Tail(lines),
                        IF word # << >> THEN acc \cup {word} ELSE acc)

\* DictionaryValidator::new
DictionaryNew ==
    /\ loaded = "none"
    /\ IF file = None
       THEN /\ loaded' = "LoadError"
            /\ dictionary' = {}
       ELSE LET read == read_words(file[1], {})
            IN  IF read = {}
                THEN /\ loaded' = "EmptyDictionary"
                     /\ dictionary' = {}
                ELSE /\ loaded' = "Ok"
                     /\ dictionary' = read
    /\ op' = [NoOp EXCEPT !.name = "new"]
    /\ UNCHANGED <<rulesVars, gameVars, batchVars, file, test, pipeVars>>

\* is_valid_word looking the word up as given
is_valid_word_as_given(dict, word) == word \in dict

\* is_valid_word
is_valid_word(dict, word) == Normalize(word) \in dict

\* a call of is_valid_word on the dictionary constructed
IsValidWord(word) ==
    /\ loaded = "Ok"
    /\ op' = [name |-> "is_valid_word", previous |-> None,
               candidate |-> Some(word),
               result |-> IF is_valid_word(dictionary, word)
                          THEN "true" ELSE "false",
               mid |-> 0]
    /\ UNCHANGED <<rulesVars, gameVars, batchVars, dictVars, test, pipeVars>>

(***************************************************************************)
(* SpecDict: a dictionary constructed from any small file, then queried    *)
(***************************************************************************)
MaxLines == 2    \* lines of the dictionary file

DictLines == {<< >>, <<" ">>, <<"a">>, <<"A", " ">>, <<"a", "b">>}

DictFiles == UNION {[1..n -> DictLines] : n \in 0..MaxLines}

DictStart ==
    /\ RulesInit
    /\ op = NoOp
    /\ GameInit
    /\ BatchInit
    /\ TestInit
    /\ PipeInit
    /\ file \in {None} \cup {Some(lines) : lines \in DictFiles}
    /\ loaded = "none"
    /\ dictionary = {}

DictNext ==
    \/ DictionaryNew
    \/ \E w \in RawWords : IsValidWord(w)

SpecDict == DictStart /\ [][DictNext]_vars

(***************************************************************************)
(* GameStateActor                                                          *)
(***************************************************************************)
MAX_HISTORY == 2

\* the texts delivered to the game, and the words as the WordValidatorActor
\* sends them to the GameStateActor: trimmed and lower-cased
GameTexts == {<<"A">>, <<"a", "b", " ">>, <<"a", "b", "b">>}
GameWords == {Normalize(w) : w \in GameTexts}
UserIds == {1}
MessageIds == {1, 2}

\* add_to_history dropping the newest entry on overflow
add_to_history_pop_back(history, entry) ==
    LET pushed == Append(history, entry)
    IN  IF Len(pushed) > MAX_HISTORY
        THEN SubSeq(pushed, 1, Len(pushed) - 1)
        ELSE pushed

\* add_to_history
add_to_history(history, entry) ==
    LET pushed == Append(history, entry)
    IN  IF Len(pushed) > MAX_HISTORY THEN Tail(pushed) ELSE pushed

\* Handler<RegisterWord>
RegisterWord(word, user_id, message_id) ==
    LET entry == [word |-> word, user_id |-> user_id,
                  message_id |-> message_id, is_valid |-> FALSE]
    IN  /\ Len(registered) < MaxRegs
        /\ word_history' = add_to_history(word_history, entry)
        /\ registered' = Append(registered,
                                 [word |-> word, user_id |-> user_id,
                                  message_id |-> message_id])
        /\ op' = [name |-> "RegisterWord", previous |-> None,
                   candidate |-> Some(word), result |-> "true",
                   mid |-> message_id]
        /\ UNCHANGED <<used_words, accepted, last_valid_word,
                        last_game_rule_word, batchVars, dictVars, test>>

\* the reference word taken from last_valid_word first
reference_word_confirmed_first ==
    IF last_valid_word # None THEN last_valid_word ELSE last_game_rule_word

\* the reference word of Handler<ValidateGameRules>
reference_word ==
    IF last_game_rule_word # None THEN last_game_rule_word ELSE last_valid_word

\* Handler<ValidateGameRules> leaving the first word out of used_words
ValidateGameRulesFirstWordUnrecorded(word) ==
    /\ IF reference_word # None
       THEN LET last_word == reference_word[1]
                r == is_valid_move(used_words, last_word, word)
            IN  /\ IF r.result
                   THEN /\ last_game_rule_word' = Some(word)
                        /\ used_words' = add_word(r.used, word)
                        /\ accepted' = accepted \cup {Normalize(word)}
                   ELSE /\ last_game_rule_word' = last_game_rule_word
                        /\ used_words' = r.used
                        /\ accepted' = accepted
                /\ op' = [name |-> "ValidateGameRules",
                           previous |-> Some(last_word),
                           candidate |-> Some(word),
                           result |-> IF r.result THEN "true" ELSE "false",
                           mid |-> 0]
       ELSE /\ last_game_rule_word' = Some(word)
            /\ used_words' = used_words
            /\ accepted' = accepted
            /\ op' = [name |-> "ValidateGameRules", previous |-> None,
                       candidate |-> Some(word), result |-> "true", mid |-> 0]
    /\ UNCHANGED <<word_history, last_valid_word, registered, batchVars,
                    dictVars, test>>

\* Handler<ValidateGameRules>
ValidateGameRules(word) ==
    /\ IF reference_word # None
       THEN LET last_word == reference_word[1]
                r == is_valid_move(used_words, last_word, word)
            IN  /\ IF r.result
                   THEN /\ last_game_rule_word' = Some(word)
                        /\ used_words' = add_word(r.used, word)
                        /\ accepted' = accepted \cup {Normalize(word)}
                   ELSE /\ last_game_rule_word' = last_game_rule_word
                        /\ used_words' = r.used
                        /\ accepted' = accepted
                /\ op' = [name |-> "ValidateGameRules",
                           previous |-> Some(last_word),
                           candidate |-> Some(word),
                           result |-> IF r.result THEN "true" ELSE "false",
                           mid |-> 0]
       ELSE /\ last_game_rule_word' = Some(word)
            /\ used_words' = add_word(used_words, word)
            /\ accepted' = accepted \cup {Normalize(word)}
            /\ op' = [name |-> "ValidateGameRules", previous |-> None,
                       candidate |-> Some(word), result |-> "true", mid |-> 0]
    /\ UNCHANGED <<word_history, last_valid_word, registered, batchVars,
                    dictVars, test>>

\* the index of the first entry of the history with this message id, or 0
RECURSIVE find_entry(_, _, _)
find_entry(history, message_id, i) ==
    IF i > Len(history) THEN 0
    ELSE IF history[i].message_id = message_id THEN i
         ELSE find_entry(history, message_id, i + 1)

\* Handler<MarkWordValidity> updating last_valid_word whatever is_valid is
MarkWordValidityAlwaysLast(message_id, is_valid) ==
    LET i == find_entry(word_history, message_id, 1)
    IN  /\ IF i # 0
           THEN /\ word_history' =
                       [word_history EXCEPT ![i].is_valid = is_valid]
                /\ last_valid_word' = Some(word_history[i].word)
           ELSE UNCHANGED <<word_history, last_valid_word>>
        /\ op' = [name |-> "MarkWordValidity", previous |-> None,
                   candidate |-> None,
                   result |-> IF is_valid THEN "true" ELSE "false",
                   mid |-> message_id]
        /\ UNCHANGED <<used_words, accepted, last_game_rule_word, registered,
                        batchVars, dictVars, test>>

\* Handler<MarkWordValidity>
MarkWordValidity(message_id, is_valid) ==
    LET i == find_entry(word_history, message_id, 1)
    IN  /\ IF i # 0
           THEN /\ word_history' =
                       [word_history EXCEPT ![i].is_valid = is_valid]
                /\ last_valid_word' = IF is_valid
                                       THEN Some(word_history[i].word)
                                       ELSE last_valid_word
           ELSE UNCHANGED <<word_history, last_valid_word>>
        /\ op' = [name |-> "MarkWordValidity", previous |-> None,
                   candidate |-> None,
                   result |-> IF is_valid THEN "true" ELSE "false",
                   mid |-> message_id]
        /\ UNCHANGED <<used_words, accepted, last_game_rule_word, registered,
                        batchVars, dictVars, test>>

\* Handler<ResetGame> leaving the history as it is
ResetGameKeepingHistory ==
    /\ word_history' = word_history
    /\ used_words' = reset(used_words)
    /\ last_valid_word' = None
    /\ last_game_rule_word' = None
    /\ registered' = << >>
    /\ accepted' = {}
    /\ op' = [NoOp EXCEPT !.name = "ResetGame"]
    /\ UNCHANGED <<batchVars, dictVars, test>>

\* Handler<ResetGame> forgetting to clear last_game_rule_word
ResetGameKeepingRuleWord ==
    /\ word_history' = << >>
    /\ used_words' = reset(used_words)
    /\ last_valid_word' = None
    /\ last_game_rule_word' = last_game_rule_word
    /\ registered' = << >>
    /\ accepted' = {}
    /\ op' = [NoOp EXCEPT !.name = "ResetGame"]
    /\ UNCHANGED <<batchVars, dictVars, test>>

\* Handler<ResetGame>
ResetGame ==
    /\ word_history' = << >>
    /\ used_words' = reset(used_words)
    /\ last_valid_word' = None
    /\ last_game_rule_word' = None
    /\ registered' = << >>
    /\ accepted' = {}
    /\ op' = [NoOp EXCEPT !.name = "ResetGame"]
    /\ UNCHANGED <<batchVars, dictVars, test>>

(***************************************************************************)
(* SpecGame: the GameStateActor handling any sequence of messages          *)
(***************************************************************************)
GameStart ==
    /\ RulesInit
    /\ op = NoOp
    /\ GameInit
    /\ BatchInit
    /\ ExtInit

GameNext ==
    \/ \E w \in GameWords, u \in UserIds, m \in MessageIds :
          RegisterWord(w, u, m) /\ UNCHANGED pipeVars
    \/ \E w \in GameWords : ValidateGameRules(w) /\ UNCHANGED pipeVars
    \/ \E m \in MessageIds, v \in BOOLEAN :
          MarkWordValidity(m, v) /\ UNCHANGED pipeVars
    \/ ResetGame /\ UNCHANGED pipeVars

SpecGame == GameStart /\ [][GameNext]_vars

(***************************************************************************)
(* LLMValidatorActor and LLMValidator                                      *)
(***************************************************************************)
max_batch_size == 2          \* LLM_BATCH_SIZE, at its default
batch_timeout_secs == 10     \* LLM_BATCH_TIMEOUT_SECS, configured to 10 seconds
poll_interval_secs == 10     \* run_interval(Duration::from_secs(10), ..)

EMOJI_CHECK == "check"
EMOJI_CROSS == "cross"
EMOJI_QUESTION == "question"

\* the word sent to the LLMValidatorActor as it is
CapitalizeNothing(w) == w

\* the capitalized word the WordValidatorActor sends to the LLMValidatorActor
Capitalize(w) == [i \in 1..Len(w) |-> IF i = 1 THEN UpperChar(w[i]) ELSE w[i]]

BatchWords == {Capitalize(<<"a">>), Capitalize(<<"a", "b">>)}

TriggerBatchValidation == [type |-> "TriggerBatchValidation"]

\* should_trigger_batch with > in place of >=
should_trigger_batch_above_max(q) ==
    \/ Len(q) > max_batch_size
    \/ (q # << >> /\ now - last_batch_time > batch_timeout_secs)

\* should_trigger_batch without the timeout
should_trigger_batch_by_size_only(q) == Len(q) >= max_batch_size

\* should_trigger_batch, with q as self.queue
should_trigger_batch(q) ==
    \/ Len(q) >= max_batch_size
    \/ (q # << >> /\ now - last_batch_time > batch_timeout_secs)

\* a WordValidatorActor thread sends ValidateProperNoun
SendValidateProperNoun(word) ==
    /\ sent < MaxSends
    /\ sent' = sent + 1
    /\ mailbox' = Append(mailbox, [type |-> "ValidateProperNoun", word |-> word,
                                    message_id |-> sent + 1])
    /\ UNCHANGED <<rulesVars, op, gameVars, extVars, queue, last_batch_time, now,
                    next_poll, flights, mutex, cache, outbox>>

\* Handler<ValidateProperNoun> of an actor that runs the flush itself and so
\* handles nothing while a flush waits for the service
HandleValidateProperNounBetweenFlushes ==
    /\ \A f \in 1..Len(flights) : flights[f].pc \notin {"lock", "call"}
    /\ mailbox # << >>
    /\ Head(mailbox).type = "ValidateProperNoun"
    /\ LET msg == Head(mailbox)
           pushed == Append(queue, [word |-> msg.word,
                                    message_id |-> msg.message_id])
       IN  /\ queue' = pushed
           /\ mailbox' = IF should_trigger_batch(pushed)
                          THEN Append(Tail(mailbox), TriggerBatchValidation)
                          ELSE Tail(mailbox)
    /\ UNCHANGED <<rulesVars, op, gameVars, extVars, last_batch_time, now, next_poll,
                    flights, mutex, cache, outbox, sent>>

\* Handler<ValidateProperNoun>
HandleValidateProperNoun ==
    /\ mailbox # << >>
    /\ Head(mailbox).type = "ValidateProperNoun"
    /\ LET msg == Head(mailbox)
           pushed == Append(queue, [word |-> msg.word,
                                    message_id |-> msg.message_id])
       IN  /\ queue' = pushed
           /\ mailbox' = IF should_trigger_batch(pushed)
                          THEN Append(Tail(mailbox), TriggerBatchValidation)
                          ELSE Tail(mailbox)
    /\ UNCHANGED <<rulesVars, op, gameVars, extVars, last_batch_time, now, next_poll,
                    flights, mutex, cache, outbox, sent>>

\* the callback of run_interval
IntervalTick ==
    /\ now >= next_poll
    /\ next_poll' = next_poll + poll_interval_secs
    /\ mailbox' = IF should_trigger_batch(queue)
                   THEN Append(mailbox, TriggerBatchValidation)
                   ELSE mailbox
    /\ UNCHANGED <<rulesVars, op, gameVars, extVars, queue, last_batch_time, now,
                    flights, mutex, cache, outbox, sent>>

\* time passes
AdvanceClock ==
    /\ now + 10 <= MaxTime
    /\ now' = now + 10
    /\ UNCHANGED <<rulesVars, op, gameVars, extVars, mailbox, queue, last_batch_time,
                    next_poll, flights, mutex, cache, outbox, sent>>

\* the loop popping from the back of the queue
RECURSIVE pop_loop_from_back(_, _)
pop_loop_from_back(q, entries) ==
    IF q = << >>
    THEN [entries |-> entries, queue |-> q]
    ELSE LET taken == Append(entries, q[Len(q)])
             rest == SubSeq(q, 1, Len(q) - 1)
         IN  IF Len(taken) >= max_batch_size
             THEN [entries |-> taken, queue |-> rest]
             ELSE pop_loop_from_back(rest, taken)

\* the loop dropping what it leaves behind
RECURSIVE pop_loop_clearing_queue(_, _)
pop_loop_clearing_queue(q, entries) ==
    IF q = << >>
    THEN [entries |-> entries, queue |-> q]
    ELSE LET taken == Append(entries, Head(q))
         IN  IF Len(taken) >= max_batch_size
             THEN [entries |-> taken, queue |-> << >>]
             ELSE pop_loop_clearing_queue(Tail(q), taken)

\* the pop_front loop: the entries taken and the queue left
RECURSIVE pop_loop(_, _)
pop_loop(q, entries) ==
    IF q = << >>
    THEN [entries |-> entries, queue |-> q]
    ELSE LET taken == Append(entries, Head(q))
         IN  IF Len(taken) >= max_batch_size
             THEN [entries |-> taken, queue |-> Tail(q)]
             ELSE pop_loop(Tail(q), taken)

\* Handler<TriggerBatchValidation>, up to and including thread::spawn
HandleTriggerBatchValidation ==
    /\ mailbox # << >>
    /\ Head(mailbox).type = "TriggerBatchValidation"
    /\ mailbox' = Tail(mailbox)
    /\ IF queue = << >>
       THEN UNCHANGED <<queue, last_batch_time, flights>>
       ELSE LET popped == pop_loop(queue, << >>)
            IN  /\ queue' = popped.queue
                /\ last_batch_time' = now
                /\ flights' = Append(flights,
                                      [entries |-> popped.entries, pc |-> "lock",
                                       request |-> << >>, results |-> << >>,
                                       next |-> 1, outcome |-> "none"])
    /\ outbox' = IF queue = << >> THEN outbox ELSE Append(outbox, << >>)
    /\ UNCHANGED <<rulesVars, op, gameVars, extVars, now, next_poll, mutex, cache, sent>>

\* the cache key looked up, taking the word as given
word_lower_as_given(word) == word

\* the cache key looked up for a word of the batch
word_lower(word) == Normalize(word)

\* the words of the batch with no cached result, in order
RECURSIVE words_to_check(_, _)
words_to_check(words, c) ==
    IF words = << >> THEN << >>
    ELSE IF word_lower(Head(words)) \in DOMAIN c
         THEN words_to_check(Tail(words), c)
         ELSE <<Head(words)>> \o words_to_check(Tail(words), c)

\* the results taken from the cache, keyed by the word of the batch
cached_results(words, c) ==
    LET hits == {words[i] : i \in {j \in 1..Len(words) :
                                      word_lower(words[j]) \in DOMAIN c}}
    IN  [w \in hits |-> c[word_lower(w)]]

Range(seq) == {seq[i] : i \in 1..Len(seq)}

\* FlightLock going ahead whoever holds the lock
FlightLockWithoutWaiting(f) ==
    /\ flights[f].pc = "lock"
    /\ LET words == [i \in 1..Len(flights[f].entries) |->
                        flights[f].entries[i].word]
           request == words_to_check(words, cache)
           results == cached_results(words, cache)
       IN  IF request = << >>
           THEN /\ flights' = [flights EXCEPT ![f].pc = "process",
                                               ![f].results = results,
                                               ![f].outcome = "cached"]
                /\ mutex' = mutex
           ELSE /\ flights' = [flights EXCEPT ![f].pc = "call",
                                               ![f].request = request,
                                               ![f].results = results]
                /\ mutex' = f
    /\ UNCHANGED <<rulesVars, op, gameVars, extVars, mailbox, queue, last_batch_time,
                    now, next_poll, cache, outbox, sent>>

\* a flush thread takes the lock and runs validate_json_batch up to the
\* request: it returns at once when every word has a cached result
FlightLock(f) ==
    /\ flights[f].pc = "lock"
    /\ mutex = 0
    /\ LET words == [i \in 1..Len(flights[f].entries) |->
                        flights[f].entries[i].word]
           request == words_to_check(words, cache)
           results == cached_results(words, cache)
       IN  IF request = << >>
           THEN /\ flights' = [flights EXCEPT ![f].pc = "process",
                                               ![f].results = results,
                                               ![f].outcome = "cached"]
                /\ mutex' = 0
           ELSE /\ flights' = [flights EXCEPT ![f].pc = "call",
                                               ![f].request = request,
                                               ![f].results = results]
                /\ mutex' = f
    /\ UNCHANGED <<rulesVars, op, gameVars, extVars, mailbox, queue, last_batch_time,
                    now, next_poll, cache, outbox, sent>>

\* FlightError caching a rejection for every word of the failed request
FlightErrorCachingRejections(f) ==
    /\ flights[f].pc = "call"
    /\ mutex = f
    /\ flights' = [flights EXCEPT ![f].pc = "process", ![f].results = << >>,
                                   ![f].outcome = "error"]
    /\ cache' = [k \in DOMAIN cache
                        \cup {Normalize(w) : w \in Range(flights[f].request)} |->
                    IF k \in DOMAIN cache THEN cache[k] ELSE FALSE]
    /\ mutex' = 0
    /\ UNCHANGED <<rulesVars, op, gameVars, extVars, mailbox, queue, last_batch_time,
                    now, next_poll, outbox, sent>>

\* the request fails or its response does not parse: validate_json_batch
\* returns Err and the thread goes on with an empty map
FlightError(f) ==
    /\ flights[f].pc = "call"
    /\ mutex = f
    /\ flights' = [flights EXCEPT ![f].pc = "process", ![f].results = << >>,
                                   ![f].outcome = "error"]
    /\ mutex' = 0
    /\ UNCHANGED <<rulesVars, op, gameVars, extVars, mailbox, queue, last_batch_time,
                    now, next_poll, cache, outbox, sent>>

\* the response holds a verdict for the words in answered: the cache and the
\* results are updated and the lock is released
FlightResponse(f, verdicts) ==
    /\ flights[f].pc = "call"
    /\ mutex = f
    /\ LET answered == DOMAIN verdicts
           keys == {Normalize(w) : w \in answered}
           old == flights[f].results
       IN  /\ cache' = [k \in DOMAIN cache \cup keys |->
                           IF k \in keys
                           THEN verdicts[CHOOSE w \in answered : Normalize(w) = k]
                           ELSE cache[k]]
           /\ flights' = [flights EXCEPT
                             ![f].pc = "process",
                             ![f].outcome = "response",
                             ![f].results =
                                 [w \in DOMAIN old \cup answered |->
                                    IF w \in answered THEN verdicts[w]
                                    ELSE old[w]]]
    /\ mutex' = 0
    /\ UNCHANGED <<rulesVars, op, gameVars, extVars, mailbox, queue, last_batch_time,
                    now, next_poll, outbox, sent>>

\* entry_messages sending the check for a word with no result
entry_messages_check_on_fallback(entry, results) ==
    IF entry.word \in DOMAIN results
    THEN <<[type |-> "DeleteReaction", message_id |-> entry.message_id,
            reaction |-> EMOJI_QUESTION]>>
         \o (IF results[entry.word]
             THEN <<[type |-> "MarkWordValidity",
                     message_id |-> entry.message_id, reaction |-> "valid"],
                    [type |-> "AddReaction", message_id |-> entry.message_id,
                     reaction |-> EMOJI_CHECK]>>
             ELSE <<[type |-> "AddReaction", message_id |-> entry.message_id,
                     reaction |-> EMOJI_CROSS]>>)
    ELSE <<[type |-> "AddReaction", message_id |-> entry.message_id,
            reaction |-> EMOJI_CHECK]>>

\* entry_messages telling the GameStateActor about a rejection as well
entry_messages_marking_rejected(entry, results) ==
    IF entry.word \in DOMAIN results
    THEN <<[type |-> "DeleteReaction", message_id |-> entry.message_id,
            reaction |-> EMOJI_QUESTION]>>
         \o (IF results[entry.word]
             THEN <<[type |-> "MarkWordValidity",
                     message_id |-> entry.message_id, reaction |-> "valid"],
                    [type |-> "AddReaction", message_id |-> entry.message_id,
                     reaction |-> EMOJI_CHECK]>>
             ELSE <<[type |-> "MarkWordValidity",
                     message_id |-> entry.message_id, reaction |-> "invalid"],
                    [type |-> "AddReaction", message_id |-> entry.message_id,
                     reaction |-> EMOJI_CROSS]>>)
    ELSE <<[type |-> "AddReaction", message_id |-> entry.message_id,
            reaction |-> EMOJI_CROSS]>>

\* entry_messages leaving the question mark in place
entry_messages_keeping_question(entry, results) ==
    IF entry.word \in DOMAIN results
    THEN IF results[entry.word]
         THEN <<[type |-> "MarkWordValidity",
                 message_id |-> entry.message_id, reaction |-> "valid"],
                [type |-> "AddReaction", message_id |-> entry.message_id,
                 reaction |-> EMOJI_CHECK]>>
         ELSE <<[type |-> "AddReaction", message_id |-> entry.message_id,
                 reaction |-> EMOJI_CROSS]>>
    ELSE <<[type |-> "AddReaction", message_id |-> entry.message_id,
            reaction |-> EMOJI_CROSS]>>

\* entry_messages sending nothing for a word that has no result
entry_messages_without_fallback(entry, results) ==
    IF entry.word \in DOMAIN results
    THEN <<[type |-> "DeleteReaction", message_id |-> entry.message_id,
            reaction |-> EMOJI_QUESTION]>>
         \o (IF results[entry.word]
             THEN <<[type |-> "MarkWordValidity",
                     message_id |-> entry.message_id, reaction |-> "valid"],
                    [type |-> "AddReaction", message_id |-> entry.message_id,
                     reaction |-> EMOJI_CHECK]>>
             ELSE <<[type |-> "AddReaction", message_id |-> entry.message_id,
                     reaction |-> EMOJI_CROSS]>>)
    ELSE << >>

\* entry_messages with the fallback reaction sent for every entry
entry_messages_falling_through(entry, results) ==
    (IF entry.word \in DOMAIN results
     THEN <<[type |-> "DeleteReaction", message_id |-> entry.message_id,
             reaction |-> EMOJI_QUESTION]>>
          \o (IF results[entry.word]
              THEN <<[type |-> "MarkWordValidity",
                      message_id |-> entry.message_id, reaction |-> "valid"],
                     [type |-> "AddReaction", message_id |-> entry.message_id,
                      reaction |-> EMOJI_CHECK]>>
              ELSE <<[type |-> "AddReaction", message_id |-> entry.message_id,
                      reaction |-> EMOJI_CROSS]>>)
     ELSE << >>)
    \o <<[type |-> "AddReaction", message_id |-> entry.message_id,
          reaction |-> EMOJI_CROSS]>>

\* the messages sent for one entry of the batch
entry_messages(entry, results) ==
    IF entry.word \in DOMAIN results
    THEN <<[type |-> "DeleteReaction", message_id |-> entry.message_id,
            reaction |-> EMOJI_QUESTION]>>
         \o (IF results[entry.word]
             THEN <<[type |-> "MarkWordValidity",
                     message_id |-> entry.message_id, reaction |-> "valid"],
                    [type |-> "AddReaction", message_id |-> entry.message_id,
                     reaction |-> EMOJI_CHECK]>>
             ELSE <<[type |-> "AddReaction", message_id |-> entry.message_id,
                     reaction |-> EMOJI_CROSS]>>)
    ELSE <<[type |-> "AddReaction", message_id |-> entry.message_id,
            reaction |-> EMOJI_CROSS]>>

\* the messages among msgs that go to the GameStateActor
to_game_state(msgs) ==
    LET marks == SelectSeq(msgs, LAMBDA m : m.type = "MarkWordValidity")
    IN  [k \in 1..Len(marks) |->
            [type |-> "MarkWordValidity", message_id |-> marks[k].message_id,
             is_valid |-> marks[k].reaction = "valid"]]

\* the messages among msgs that go to the MessageReactionActor
to_message_reaction(msgs) ==
    SelectSeq(msgs, LAMBDA m : m.type \in {"AddReaction", "DeleteReaction"})

\* one iteration of "for entry in entries"
FlightProcess(f) ==
    /\ flights[f].pc = "process"
    /\ LET i == flights[f].next
           msgs == entry_messages(flights[f].entries[i], flights[f].results)
       IN  /\ outbox' = [outbox EXCEPT ![f] = @ \o msgs]
           /\ game_mailbox' = game_mailbox \o to_game_state(msgs)
           /\ sink' = sink \o to_message_reaction(msgs)
           /\ flights' = [flights EXCEPT
                             ![f].next = i + 1,
                             ![f].pc = IF i = Len(flights[f].entries)
                                       THEN "done" ELSE "process"]
    /\ UNCHANGED <<rulesVars, op, gameVars, dictVars, test, delivered, threads,
                    resets, mailbox, queue, last_batch_time, now, next_poll,
                    mutex, cache, sent>>

(***************************************************************************)
(* SpecBatch: the LLMValidatorActor, its timer and its flush threads       *)
(***************************************************************************)
BatchStart ==
    /\ RulesInit
    /\ op = NoOp
    /\ GameInit
    /\ BatchInit
    /\ ExtInit

\* the responses of the service: a verdict for some of the words requested
Verdicts(request) == UNION {[answered -> BOOLEAN] : answered \in SUBSET Range(request)}

BatchNext ==
    \/ \E w \in BatchWords : SendValidateProperNoun(w)
    \/ HandleValidateProperNoun
    \/ IntervalTick
    \/ AdvanceClock
    \/ HandleTriggerBatchValidation
    \/ \E f \in 1..Len(flights) : FlightLock(f)
    \/ \E f \in 1..Len(flights) : FlightError(f)
    \/ \E f \in 1..Len(flights) :
          \E v \in Verdicts(flights[f].request) : FlightResponse(f, v)
    \/ \E f \in 1..Len(flights) : FlightProcess(f)

SpecBatch == BatchStart /\ [][BatchNext]_vars

(***************************************************************************)
(* SpecBatchLive: SpecBatch with time that never stops, the timer and the  *)
(* actor taking their steps                                                *)
(***************************************************************************)
MaxPending == 2  \* the timer fires with fewer messages than this in the mailbox

Max(x, y) == IF x >= y THEN x ELSE y

\* time passes with the clock at its bound: the clock stays and the two other
\* times move back instead, no further than keeps "the timeout has elapsed"
\* and "the timer is due" what they are
ClockShift ==
    /\ now + 10 > MaxTime
    /\ last_batch_time' = Max(last_batch_time - 10, now - batch_timeout_secs - 10)
    /\ next_poll' = Max(next_poll - 10, now - poll_interval_secs)
    /\ UNCHANGED <<rulesVars, op, gameVars, extVars, mailbox, queue, now,
                    flights, mutex, cache, outbox, sent>>

\* time passes
TimePasses == AdvanceClock \/ ClockShift

\* the timer fires once the actor has caught up with its mailbox
PolledTick == Len(mailbox) < MaxPending /\ IntervalTick

\* the actor handles the message at the head of its mailbox
MailboxStep == HandleValidateProperNoun \/ HandleTriggerBatchValidation

BatchLiveNext ==
    \/ \E w \in BatchWords : SendValidateProperNoun(w)
    \/ HandleValidateProperNoun
    \/ PolledTick
    \/ TimePasses
    \/ HandleTriggerBatchValidation
    \/ \E f \in 1..Len(flights) : FlightLock(f)
    \/ \E f \in 1..Len(flights) : FlightError(f)
    \/ \E f \in 1..Len(flights) :
          \E v \in Verdicts(flights[f].request) : FlightResponse(f, v)
    \/ \E f \in 1..Len(flights) : FlightProcess(f)

SpecBatchLive ==
    /\ BatchStart
    /\ [][BatchLiveNext]_vars
    /\ WF_vars(PolledTick)
    /\ WF_vars(TimePasses)
    /\ WF_vars(MailboxStep)

(***************************************************************************)
(* WordValidatorActor and the thread it spawns for every word              *)
(***************************************************************************)
MaxMsgs == 2     \* ValidateWord messages delivered
MaxResets == 1   \* ResetGame messages sent

\* the texts of the Discord messages: blank, with a blank inside, a word of
\* the dictionary, and two words that are not in it, the last one two letters
\* away from the word of the dictionary
PipeTexts ==
    {<<" ">>, <<"a", " ", "b">>, <<"a">>, <<"A", "b">>, <<"a", "b", "b">>}

\* the dictionary file of the running bot
PipeFile == <<<<"a">>, << >>>>

\* char::is_alphabetic on the modelled characters
IsAlphabetic(c) == c \in {"a", "b", "A", "B"}

\* Handler<ValidateWord> skipping the empty word only
ValidateWordSkippingEmptyOnly(text, user_id) ==
    /\ delivered < MaxMsgs
    /\ delivered' = delivered + 1
    /\ LET word == Normalize(text)
           message_id == delivered + 1
       IN  IF word = << >>
           THEN /\ threads' = Append(threads,
                                      [pc |-> "skipped", word |-> word,
                                       is_in_dictionary |-> FALSE,
                                       reply |-> None])
                /\ UNCHANGED game_mailbox
           ELSE /\ game_mailbox' =
                       Append(game_mailbox,
                              [type |-> "RegisterWord", word |-> word,
                               user_id |-> user_id, message_id |-> message_id])
                /\ threads' = Append(threads,
                                      [pc |-> "send", word |-> word,
                                       is_in_dictionary |->
                                           is_valid_word(dictionary, word),
                                       reply |-> None])
    /\ UNCHANGED <<rulesVars, op, gameVars, batchVars, dictVars, test, sink,
                    resets>>

\* Handler<ValidateWord>, up to and including thread::spawn, for the first
\* `limit` messages delivered
ValidateWordWithin(limit, text, user_id) ==
    /\ delivered < limit
    /\ delivered' = delivered + 1
    /\ LET word == Normalize(text)
           message_id == delivered + 1
       IN  IF word = << >> \/ ~(\A i \in 1..Len(word) : IsAlphabetic(word[i]))
           THEN /\ threads' = Append(threads,
                                      [pc |-> "skipped", word |-> word,
                                       is_in_dictionary |-> FALSE,
                                       reply |-> None])
                /\ UNCHANGED game_mailbox
           ELSE /\ game_mailbox' =
                       Append(game_mailbox,
                              [type |-> "RegisterWord", word |-> word,
                               user_id |-> user_id, message_id |-> message_id])
                /\ threads' = Append(threads,
                                      [pc |-> "send", word |-> word,
                                       is_in_dictionary |->
                                           is_valid_word(dictionary, word),
                                       reply |-> None])
    /\ UNCHANGED <<rulesVars, op, gameVars, batchVars, dictVars, test, sink,
                    resets>>

\* Handler<ValidateWord>, up to and including thread::spawn
ValidateWord(text, user_id) == ValidateWordWithin(MaxMsgs, text, user_id)

\* the thread of message t sends ValidateGameRules and waits for the reply
ThreadSend(t) ==
    /\ threads[t].pc = "send"
    /\ game_mailbox' = Append(game_mailbox,
                               [type |-> "ValidateGameRules",
                                word |-> threads[t].word, message_id |-> t])
    /\ threads' = [threads EXCEPT ![t].pc = "wait"]
    /\ UNCHANGED <<rulesVars, op, gameVars, batchVars, dictVars, test,
                    delivered, sink, resets>>

\* ThreadTimeout sending the cross for the message
ThreadTimeoutSendingCross(t) ==
    /\ threads[t].pc = "wait"
    /\ threads' = [threads EXCEPT ![t].pc = "timeout"]
    /\ sink' = Append(sink, [type |-> "AddReaction", message_id |-> t,
                              reaction |-> EMOJI_CROSS])
    /\ UNCHANGED <<rulesVars, op, gameVars, batchVars, dictVars, test,
                    delivered, game_mailbox, resets>>

\* the request ends with a MailboxError: the thread logs it and ends
ThreadError(t) ==
    /\ threads[t].pc = "wait"
    /\ threads' = [threads EXCEPT ![t].pc = "error"]
    /\ UNCHANGED <<rulesVars, op, gameVars, batchVars, dictVars, test,
                    delivered, game_mailbox, sink, resets>>

\* the 5 seconds pass before the reply comes
ThreadTimeout(t) ==
    /\ threads[t].pc = "wait"
    /\ threads' = [threads EXCEPT ![t].pc = "timeout"]
    /\ UNCHANGED <<rulesVars, op, gameVars, batchVars, dictVars, test,
                    delivered, game_mailbox, sink, resets>>

\* AddReaction
AddReaction(message_id, reaction) ==
    [type |-> "AddReaction", message_id |-> message_id, reaction |-> reaction]

\* ThreadFinish asking the LLMValidatorActor about every accepted word
ThreadFinishAskingAlways(t) ==
    /\ threads[t].pc = "replied"
    /\ threads' = [threads EXCEPT ![t].pc = "done"]
    /\ IF threads[t].reply[1]
       THEN /\ sink' = Append(sink, AddReaction(t, EMOJI_QUESTION))
            /\ mailbox' =
                   Append(mailbox,
                          [type |-> "ValidateProperNoun",
                           word |-> Capitalize(threads[t].word),
                           message_id |-> t])
            /\ sent' = sent + 1
            /\ UNCHANGED game_mailbox
       ELSE /\ sink' = Append(sink, AddReaction(t, EMOJI_CROSS))
            /\ UNCHANGED <<game_mailbox, mailbox, sent>>
    /\ UNCHANGED <<rulesVars, op, gameVars, dictVars, test, delivered, resets,
                    queue, last_batch_time, now, next_poll, flights, mutex,
                    cache, outbox>>

\* ThreadFinish telling the GameStateActor about a rejection as well
ThreadFinishMarkingRejected(t) ==
    /\ threads[t].pc = "replied"
    /\ threads' = [threads EXCEPT ![t].pc = "done"]
    /\ IF threads[t].reply[1]
       THEN IF threads[t].is_in_dictionary
            THEN /\ sink' = Append(sink, AddReaction(t, EMOJI_CHECK))
                 /\ game_mailbox' =
                        Append(game_mailbox,
                               [type |-> "MarkWordValidity", message_id |-> t,
                                is_valid |-> TRUE])
                 /\ UNCHANGED <<mailbox, sent>>
            ELSE /\ sink' = Append(sink, AddReaction(t, EMOJI_QUESTION))
                 /\ mailbox' =
                        Append(mailbox,
                               [type |-> "ValidateProperNoun",
                                word |-> Capitalize(threads[t].word),
                                message_id |-> t])
                 /\ sent' = sent + 1
                 /\ UNCHANGED game_mailbox
       ELSE /\ sink' = Append(sink, AddReaction(t, EMOJI_CROSS))
            /\ game_mailbox' =
                   Append(game_mailbox,
                          [type |-> "MarkWordValidity", message_id |-> t,
                           is_valid |-> FALSE])
            /\ UNCHANGED <<mailbox, sent>>
    /\ UNCHANGED <<rulesVars, op, gameVars, dictVars, test, delivered, resets,
                    queue, last_batch_time, now, next_poll, flights, mutex,
                    cache, outbox>>

\* the thread of message t goes on with the reply to ValidateGameRules
ThreadFinish(t) ==
    /\ threads[t].pc = "replied"
    /\ threads' = [threads EXCEPT ![t].pc = "done"]
    /\ IF threads[t].reply[1]
       THEN IF threads[t].is_in_dictionary
            THEN /\ sink' = Append(sink, AddReaction(t, EMOJI_CHECK))
                 /\ game_mailbox' =
                        Append(game_mailbox,
                               [type |-> "MarkWordValidity", message_id |-> t,
                                is_valid |-> TRUE])
                 /\ UNCHANGED <<mailbox, sent>>
            ELSE /\ sink' = Append(sink, AddReaction(t, EMOJI_QUESTION))
                 /\ mailbox' =
                        Append(mailbox,
                               [type |-> "ValidateProperNoun",
                                word |-> Capitalize(threads[t].word),
                                message_id |-> t])
                 /\ sent' = sent + 1
                 /\ UNCHANGED game_mailbox
       ELSE /\ sink' = Append(sink, AddReaction(t, EMOJI_CROSS))
            /\ UNCHANGED <<game_mailbox, mailbox, sent>>
    /\ UNCHANGED <<rulesVars, op, gameVars, dictVars, test, delivered, resets,
                    queue, last_batch_time, now, next_poll, flights, mutex,
                    cache, outbox>>

\* ResetGame is sent to the GameStateActor
SendResetGame ==
    /\ resets < MaxResets
    /\ resets' = resets + 1
    /\ game_mailbox' = Append(game_mailbox, [type |-> "ResetGame"])
    /\ UNCHANGED <<rulesVars, op, gameVars, batchVars, dictVars, test,
                    delivered, threads, sink>>

\* the GameStateActor takes the next message of its mailbox
GameStateReceives(type) ==
    /\ game_mailbox # << >>
    /\ Head(game_mailbox).type = type
    /\ game_mailbox' = Tail(game_mailbox)
    /\ UNCHANGED <<delivered, sink, resets>>

DeliverRegisterWord ==
    /\ GameStateReceives("RegisterWord")
    /\ LET msg == Head(game_mailbox)
       IN  RegisterWord(msg.word, msg.user_id, msg.message_id)
    /\ UNCHANGED threads

\* the reply goes to the thread that asked, unless it has given up
DeliverValidateGameRules ==
    /\ GameStateReceives("ValidateGameRules")
    /\ LET msg == Head(game_mailbox)
       IN  /\ ValidateGameRules(msg.word)
           /\ threads' =
                 IF threads[msg.message_id].pc = "wait"
                 THEN [threads EXCEPT
                          ![msg.message_id].pc = "replied",
                          ![msg.message_id].reply = Some(op'.result = "true")]
                 ELSE threads

\* the request at the head of the mailbox was abandoned by its thread before
\* the actor came to it: the message is dropped and no handler runs
DiscardValidateGameRules ==
    /\ GameStateReceives("ValidateGameRules")
    /\ threads[Head(game_mailbox).message_id].pc \in {"timeout", "error"}
    /\ UNCHANGED <<rulesVars, op, gameVars, batchVars, dictVars, test, threads>>

DeliverMarkWordValidity ==
    /\ GameStateReceives("MarkWordValidity")
    /\ LET msg == Head(game_mailbox)
       IN  MarkWordValidity(msg.message_id, msg.is_valid)
    /\ UNCHANGED threads

DeliverResetGame ==
    /\ GameStateReceives("ResetGame")
    /\ ResetGame
    /\ UNCHANGED threads

(***************************************************************************)
(* SpecPipe: the actors, the threads and the timer together                *)
(***************************************************************************)
PipeStart ==
    /\ RulesInit
    /\ op = NoOp
    /\ GameInit
    /\ BatchInit
    /\ TestInit
    /\ PipeInit
    /\ file = Some(PipeFile)
    /\ loaded = "Ok"
    /\ dictionary = read_words(PipeFile, {})

PipeNext ==
    \/ \E text \in PipeTexts, u \in UserIds : ValidateWord(text, u)
    \/ \E t \in 1..Len(threads) : ThreadSend(t)
    \/ \E t \in 1..Len(threads) : ThreadTimeout(t)
    \/ \E t \in 1..Len(threads) : ThreadError(t)
    \/ \E t \in 1..Len(threads) : ThreadFinish(t)
    \/ SendResetGame
    \/ DeliverRegisterWord
    \/ DeliverValidateGameRules
    \/ DiscardValidateGameRules
    \/ DeliverMarkWordValidity
    \/ DeliverResetGame
    \/ HandleValidateProperNoun
    \/ IntervalTick
    \/ AdvanceClock
    \/ HandleTriggerBatchValidation
    \/ \E f \in 1..Len(flights) : FlightLock(f)
    \/ \E f \in 1..Len(flights) : FlightError(f)
    \/ \E f \in 1..Len(flights) :
          \E v \in Verdicts(flights[f].request) : FlightResponse(f, v)
    \/ \E f \in 1..Len(flights) : FlightProcess(f)

SpecPipe == PipeStart /\ [][PipeNext]_vars

(***************************************************************************)
(* Reference definitions of the one-edit rule, independent of the walk     *)
(***************************************************************************)
DiffPositions(x, y) == {i \in 1..Len(x) : x[i] # y[i]}

DeleteAt(w, i) == SubSeq(w, 1, i - 1) \o SubSeq(w, i + 1, Len(w))

\* shorter is longer with exactly one character deleted, at any position
OneDeletion(longer, shorter) ==
    \E i \in 1..Len(longer) : DeleteAt(longer, i) = shorter

\* the normalized arguments of the call recorded in op
OpPrevious == Normalize(op.previous[1])
OpCandidate == Normalize(op.candidate[1])

(***************************************************************************)
(* SpecLate: the pipeline without ResetGame, with one more message and     *)
(* fewer texts, so that the history overflows while a word is pending      *)
(***************************************************************************)
MaxLate == 3     \* ValidateWord messages delivered in SpecLate

\* a word that is not in the dictionary and the word that is
LateTexts == {<<"A", "b">>, <<"a">>}

LateNext ==
    \/ \E text \in LateTexts, u \in UserIds :
          ValidateWordWithin(MaxLate, text, u)
    \/ \E t \in 1..Len(threads) : ThreadSend(t)
    \/ \E t \in 1..Len(threads) : ThreadTimeout(t)
    \/ \E t \in 1..Len(threads) : ThreadError(t)
    \/ \E t \in 1..Len(threads) : ThreadFinish(t)
    \/ DeliverRegisterWord
    \/ DeliverValidateGameRules
    \/ DiscardValidateGameRules
    \/ DeliverMarkWordValidity
    \/ HandleValidateProperNoun
    \/ IntervalTick
    \/ AdvanceClock
    \/ HandleTriggerBatchValidation
    \/ \E f \in 1..Len(flights) : FlightLock(f)
    \/ \E f \in 1..Len(flights) : FlightError(f)
    \/ \E f \in 1..Len(flights) :
          \E v \in Verdicts(flights[f].request) : FlightResponse(f, v)
    \/ \E f \in 1..Len(flights) : FlightProcess(f)

SpecLate == PipeStart /\ [][LateNext]_vars

(***************************************************************************)
(* Properties of validate_move (SpecMove)                                  *)
(***************************************************************************)

\* C1: for normalized previous and candidate of equal length, the candidate
\* not in used_words, validate_move succeeds iff the two differ in exactly
\* one character position.
EqualLengthIffOneSubstitution ==
    [][(/\ op.name = "call"
        /\ Len(OpPrevious) = Len(OpCandidate)
        /\ OpCandidate \notin used_words)
       => (op'.result = "Ok"
             <=> Cardinality(DiffPositions(OpPrevious, OpCandidate)) = 1)]_vars

\* a substitution in a word of three characters, given with an upper-case
\* letter, was accepted
EqualLengthAccepted ==
    /\ op.name = "validate_move"
    /\ op.result = "Ok"
    /\ Len(OpPrevious) = 3
    /\ Len(OpCandidate) = 3
    /\ op.candidate[1] # OpCandidate
    /\ Cardinality(DiffPositions(OpPrevious, OpCandidate)) = 1

\* C2: for normalized previous and candidate whose lengths differ by exactly
\* one, the candidate not in used_words, validate_move succeeds iff the
\* shorter is the longer with one character deleted at some position.
LengthOneApartIffOneDeletion ==
    [][(/\ op.name = "call"
        /\ Abs(Len(OpPrevious) - Len(OpCandidate)) = 1
        /\ OpCandidate \notin used_words)
       => (op'.result = "Ok"
             <=> IF Len(OpPrevious) < Len(OpCandidate)
                 THEN OneDeletion(OpCandidate, OpPrevious)
                 ELSE OneDeletion(OpPrevious, OpCandidate))]_vars

\* a deletion inside a run of repeated characters was accepted: "aab" -> "ab"
RepeatedCharacterDeletionAccepted ==
    /\ op.name = "validate_move"
    /\ op.result = "Ok"
    /\ OpPrevious = <<"a", "a", "b">>
    /\ OpCandidate = <<"a", "b">>

\* C3: validate_move(w, w) fails, as AlreadyUsed or as RuleViolation, whatever
\* used_words holds, and leaves used_words unchanged.
SameWordRejected ==
    [][(op.name = "call" /\ OpPrevious = OpCandidate)
       => (/\ op'.result \in {"AlreadyUsed", "RuleViolation"}
           /\ used_words' = used_words)]_vars

\* the same word was given twice, was not in used_words, and was rejected
SameWordRuleViolation ==
    /\ op.name = "validate_move"
    /\ op.previous = op.candidate
    /\ Len(OpCandidate) = 2
    /\ op.result = "RuleViolation"
    /\ used_words = {}

\* C4: validate_move fails whenever the lengths of the normalized previous and
\* candidate differ by more than one.
LengthFarApartRejected ==
    (op.name = "validate_move" /\ Abs(Len(OpPrevious) - Len(OpCandidate)) > 1)
    => op.result # "Ok"

\* a candidate two characters longer, not in used_words, was rejected
TwoLongerRejected ==
    /\ op.name = "validate_move"
    /\ Len(OpCandidate) = Len(OpPrevious) + 2
    /\ op.result = "RuleViolation"


(***************************************************************************)
(* Properties of the RulesValidator (SpecRules)                            *)
(***************************************************************************)

Blank(line) == \A j \in 1..Len(line) : IsWhitespace(line[j])

\* str::to_uppercase on the modelled characters
ToUppercase(w) == [i \in 1..Len(w) |-> UpperChar(w[i])]

\* the lines of the file that was read
FileLines == IF file = None THEN << >> ELSE file[1]

\* the word is_valid_word was called with
Asked == op.candidate[1]

\* C18: is_valid_word(word) is true exactly when the trimmed, lower-cased
\* word equals the trimmed, lower-cased text of some non-blank line of the
\* file; the answer is the same for the word in upper case, it is false for
\* the empty string, and the set of words never changes once loaded.
ContainsIffSomeLineMatches ==
    /\ [](op.name = "is_valid_word"
            => /\ op.result = "true"
                    <=> \E i \in 1..Len(FileLines) :
                           /\ ~Blank(FileLines[i])
                           /\ Normalize(FileLines[i]) = Normalize(Asked)
               /\ is_valid_word(dictionary, ToUppercase(Asked))
                    = (op.result = "true")
               /\ Asked = << >> => op.result = "false")
    /\ [][loaded = "Ok" => dictionary' = dictionary]_vars

\* a word given in upper case with a blank around it was found, although
\* no line of the file has this very text
UpperCaseWordFound ==
    /\ op.name = "is_valid_word"
    /\ op.result = "true"
    /\ Asked # Normalize(Asked)
    /\ \A i \in 1..Len(FileLines) : FileLines[i] # Asked

\* C19: DictionaryValidator::new fails with EmptyDictionary exactly when the
\* file can be read and every line of it is blank (or it has no line), and
\* it succeeds for every other file that can be read.
EmptyIffNoWord ==
    loaded # "none"
      => /\ loaded = "EmptyDictionary"
              <=> (file # None /\ \A i \in 1..Len(FileLines) : Blank(FileLines[i]))
         /\ (file # None /\ loaded # "EmptyDictionary") => loaded = "Ok"

\* a file of blank lines only was refused
BlankLinesOnlyRefused ==
    /\ loaded = "EmptyDictionary"
    /\ Len(FileLines) = 2
    /\ dictionary = {}

(***************************************************************************)
(* Properties of the GameStateActor (SpecGame)                             *)
(***************************************************************************)

\* what identifies a history entry: everything but its validity
Identity(entry) ==
    [word |-> entry.word, user_id |-> entry.user_id,
     message_id |-> entry.message_id]

\* the last n elements of a sequence (all of it when it is shorter)
LastN(seq, n) ==
    IF Len(seq) <= n THEN seq ELSE SubSeq(seq, Len(seq) - n + 1, Len(seq))

\* C6: the history never holds more than 2 entries, and after n >= 2
\* registrations with no reset in between it holds exactly the 2 entries
\* registered last, in the order of registration.
HistoryIsLastTwoRegistered ==
    /\ Len(word_history) <= 2
    /\ Len(registered) >= 2
         => [i \in 1..Len(word_history) |-> Identity(word_history[i])]
              = LastN(registered, 2)

\* three different entries were registered and the first one was evicted
ThirdRegistrationEvicted ==
    /\ Len(registered) = 3
    /\ \A i, j \in 1..3 : i # j => registered[i] # registered[j]
    /\ op.name = "RegisterWord"
    /\ Len(word_history) = 2

\* C10: every operation other than the reset (RegisterWord, ValidateGameRules
\* with the validate_move and add_word it makes, accepted or rejected, and
\* MarkWordValidity) leaves used_words a superset of what it was.
UsedWordsOnlyGrow ==
    [][op'.name # "ResetGame" => used_words \subseteq used_words']_vars

\* a rejected candidate left a set of two used words in place
RejectedMoveKeptUsedWords ==
    /\ op.name = "ValidateGameRules"
    /\ op.result = "false"
    /\ Cardinality(used_words) >= 2

\* C11: the validity of a history entry is written at most once and never
\* reverses: no MarkWordValidity takes an entry that is valid back to not
\* valid.
ValidityNeverReverses ==
    [][op'.name = "MarkWordValidity"
         => \A i \in 1..Len(word_history) :
               word_history[i].is_valid => word_history'[i].is_valid]_vars

\* C20: when last_game_rule_word and last_valid_word are both None, the
\* handler of ValidateGameRules accepts the candidate whatever it is, makes
\* it last_game_rule_word and inserts it into used_words.
FirstWordAcceptedUnchecked ==
    [][(op'.name = "ValidateGameRules"
          /\ last_game_rule_word = None /\ last_valid_word = None)
         => /\ op'.result = "true"
            /\ op'.previous = None
            /\ last_game_rule_word' = op'.candidate
            /\ used_words' = used_words \cup {Normalize(op'.candidate[1])}
            /\ last_valid_word' = None]_vars

\* a word of three letters was accepted with no word to compare it with
LongFirstWordAccepted ==
    /\ op.name = "ValidateGameRules"
    /\ op.previous = None
    /\ op.result = "true"
    /\ last_valid_word = None
    /\ used_words = {Normalize(op.candidate[1])}
    /\ Len(op.candidate[1]) = 3

\* C21: the handler of ValidateGameRules compares the candidate with
\* last_game_rule_word whenever that is set, whatever the validity of its
\* history entry and whatever last_valid_word holds, and with last_valid_word
\* only when last_game_rule_word is None; the candidate is accepted exactly
\* when validate_move accepts it after that word (or there is no such word),
\* and on acceptance last_game_rule_word becomes the candidate, on rejection
\* it stays.
ChainsOffLastRuleWord ==
    [][op'.name = "ValidateGameRules"
         => LET ref == IF last_game_rule_word # None THEN last_game_rule_word
                       ELSE last_valid_word
                cand == op'.candidate[1]
            IN  /\ op'.previous = ref
                /\ op'.result = "true"
                     <=> \/ ref = None
                         \/ validate_move(used_words, ref[1], cand).result = "Ok"
                /\ op'.result = "true" => last_game_rule_word' = Some(cand)
                /\ op'.result = "false"
                     => last_game_rule_word' = last_game_rule_word]_vars

\* a candidate was accepted after the last rule-accepted word, whose entry
\* is in the history and not valid, while last_valid_word holds another word
\* that the candidate could not follow
AcceptedAfterUnconfirmedWord ==
    /\ op.name = "ValidateGameRules"
    /\ op.result = "true"
    /\ op.previous # None
    /\ last_valid_word # None
    /\ last_valid_word # op.previous
    /\ ~check_one_letter_difference(last_valid_word[1], op.candidate[1]).valid
    /\ \E i \in 1..Len(word_history) :
          /\ word_history[i].word = op.previous[1]
          /\ ~word_history[i].is_valid

\* the entries of a history without their validity
Identities(history) == [i \in 1..Len(history) |-> Identity(history[i])]

\* C26: MarkWordValidity(message_id, is_valid) makes last_valid_word the word
\* of an entry of the history with that message id, and that entry valid,
\* when there is such an entry and is_valid is true; otherwise it leaves
\* last_valid_word as it was. With no such entry it changes nothing at all.
\* It never changes last_game_rule_word, used_words, or which entries the
\* history holds and in which order.
MarkOnlyTouchesValidity ==
    [][op'.name = "MarkWordValidity"
         => LET matching == {i \in 1..Len(word_history) :
                                word_history[i].message_id = op'.mid}
            IN  /\ (matching # {} /\ op'.result = "true")
                     => \E i \in matching :
                           /\ last_valid_word' = Some(word_history[i].word)
                           /\ word_history'[i].is_valid
                /\ ~(matching # {} /\ op'.result = "true")
                     => last_valid_word' = last_valid_word
                /\ matching = {} => UNCHANGED <<gameVars, rulesVars>>
                /\ UNCHANGED <<last_game_rule_word, used_words>>
                /\ Identities(word_history') = Identities(word_history)]_vars

\* MarkWordValidity(1, true) came after the entry of message 1 had been
\* evicted from the history, and last_valid_word kept the word of another
\* message
EvictedEntryMarkedValid ==
    /\ op.name = "MarkWordValidity"
    /\ op.mid = 1
    /\ op.result = "true"
    /\ \E i \in 1..Len(registered) : registered[i].message_id = 1
    /\ \A i \in 1..Len(word_history) : word_history[i].message_id # 1
    /\ last_valid_word # None
    /\ \E i \in 1..Len(word_history) :
          /\ word_history[i].is_valid
          /\ last_valid_word = Some(word_history[i].word)

\* C34: in every state of the GameStateActor, last_game_rule_word is None
\* exactly when used_words is empty, and when it is set its normalized form
\* is one of the used words
RuleWordTracksUsedWords ==
    /\ (last_game_rule_word = None) <=> (used_words = {})
    /\ last_game_rule_word # None =>
          Normalize(last_game_rule_word[1]) \in used_words

\* C34 witness: a third word has just been accepted, and the rule word is
\* the newest of three used words while a different word is the confirmed one
RuleWordNewestOfThree ==
    /\ op.name = "ValidateGameRules"
    /\ op.result = "true"
    /\ op.previous # None
    /\ last_game_rule_word = op.candidate
    /\ Cardinality(used_words) = 3
    /\ last_valid_word # None
    /\ last_valid_word # last_game_rule_word

(***************************************************************************)
(* Properties of the LLMValidatorActor (SpecBatch)                         *)
(***************************************************************************)

\* a step that dequeues a batch and spawns its flush thread
Flushes == Len(flights') = Len(flights) + 1

\* the flush is due: the queue holds a full batch or the timeout has elapsed
FlushDue ==
    \/ Len(queue) >= max_batch_size
    \/ (queue # << >> /\ now - last_batch_time > batch_timeout_secs)

\* C7: a batch is dequeued only when the queue has reached the maximum batch
\* size or the time since the last flush exceeds the timeout.
FlushOnlyWhenDue == [][Flushes => FlushDue]_vars

\* C8: when a flush sends its request, no word of the request has its
\* normalized form in the result cache, also with other flushes in flight.
CachedWordsNotRequested ==
    [][\A f \in 1..Len(flights) :
          (flights[f].pc = "lock" /\ flights'[f].pc = "call")
          => \A i \in 1..Len(flights'[f].request) :
                Normalize(flights'[f].request[i]) \notin DOMAIN cache]_vars

\* a flush of two words has sent a request without its cached word, while
\* the thread of another flush is still running
CachedWordLeftOut ==
    \E f, g \in 1..Len(flights) :
        /\ f # g
        /\ flights[f].pc = "call"
        /\ Len(flights[f].entries) = 2
        /\ Len(flights[f].request) = 1
        /\ \E i \in 1..2 :
              Normalize(flights[f].entries[i].word) \in DOMAIN cache
        /\ flights[g].pc \in {"lock", "process"}

\* C9: the ValidateProperNoun that brings the queue to the maximum batch size
\* sends TriggerBatchValidation itself, and whenever the queue holds a full
\* batch a trigger is in the mailbox: the flush waits for no poll and no
\* timeout.
FullQueueTriggersAtOnce ==
    /\ [][(Len(queue') = Len(queue) + 1 /\ Len(queue') >= max_batch_size)
           => mailbox' = Append(Tail(mailbox), TriggerBatchValidation)]_vars
    /\ [](Len(queue) >= max_batch_size
            => \E i \in 1..Len(mailbox) : mailbox[i] = TriggerBatchValidation)

\* two words were flushed together before the clock moved or the timer fired
FlushedBeforeAnyPoll ==
    /\ now = 0
    /\ next_poll = poll_interval_secs
    /\ Len(flights) = 1
    /\ Len(flights[1].entries) = max_batch_size

\* the entries dequeued so far, flush after flush, followed by the queue
RECURSIVE DequeuedThenQueued(_)
DequeuedThenQueued(f) ==
    IF f > Len(flights) THEN queue
    ELSE flights[f].entries \o DequeuedThenQueued(f + 1)

Min(x, y) == IF x <= y THEN x ELSE y

\* C28: a flush takes the first min(length of the queue, max_batch_size)
\* entries of the queue, in their order, as its batch and leaves the others
\* in the queue in their order; and the entries dequeued so far, flush after
\* flush, followed by the queue, are always in the order in which their
\* ValidateProperNoun messages were sent (by ascending message id).
FlushTakesQueueHead ==
    /\ [][Flushes
            => LET batch == flights'[Len(flights')].entries
                   n == Min(Len(queue), max_batch_size)
               IN  /\ n >= 1
                   /\ batch = SubSeq(queue, 1, n)
                   /\ queue' = SubSeq(queue, n + 1, Len(queue))]_vars
    /\ [](LET all == DequeuedThenQueued(1)
          IN  \A i, j \in 1..Len(all) :
                 i < j => all[i].message_id < all[j].message_id)

\* three words were enqueued before the first trigger was handled: the
\* flush took the first two and left the third in the queue, with the
\* second trigger still to come
FlushLeftThirdEntry ==
    /\ now = 0
    /\ Len(flights) = 1
    /\ [i \in 1..Len(flights[1].entries) |-> flights[1].entries[i].message_id]
          = <<1, 2>>
    /\ Len(queue) = 1
    /\ queue[1].message_id = 3
    /\ mailbox = <<TriggerBatchValidation>>

\* the positions of the sink holding a terminal reaction for message m
Terminals(m) ==
    {i \in 1..Len(sink) :
        /\ sink[i].type = "AddReaction"
        /\ sink[i].message_id = m
        /\ sink[i].reaction \in {EMOJI_CHECK, EMOJI_CROSS}}

\* the entries of flush f that its thread has gone through and that had no
\* result: the call failed, or the response left the word out
Unresolved(f) ==
    {i \in 1..(flights[f].next - 1) :
        /\ flights[f].outcome \in {"error", "response"}
        /\ flights[f].entries[i].word \notin DOMAIN flights[f].results}

\* the messages of a sequence that are about message m
About(msgs, m) == SelectSeq(msgs, LAMBDA x : x.message_id = m)

\* C14 as stated: a word whose confirmation is unresolved gets no terminal
\* reaction, neither check nor cross.
UnresolvedGetsNoTerminal ==
    \A f \in 1..Len(flights) : \A i \in Unresolved(f) :
        Terminals(flights[f].entries[i].message_id) = {}

\* C14: a word whose confirmation is unresolved gets the cross from the
\* flush thread and nothing else: the question mark is not deleted, no
\* MarkWordValidity is sent for it and it never gets the check.
UnresolvedGetsCrossOnly ==
    \A f \in 1..Len(flights) : \A i \in Unresolved(f) :
        LET m == flights[f].entries[i].message_id
        IN  /\ About(outbox[f], m) = <<AddReaction(m, EMOJI_CROSS)>>
            /\ About(sink, m) = <<AddReaction(m, EMOJI_CROSS)>>
            /\ About(game_mailbox, m) = << >>

\* the call of a flush of two words failed and both words got the cross
FailedCallCrossedBoth ==
    \E f \in 1..Len(flights) :
        /\ flights[f].pc = "done"
        /\ flights[f].outcome = "error"
        /\ Unresolved(f) = {1, 2}
        /\ Len(sink) >= 2

\* the entries of flush f that its thread has gone through and whose word
\* had a cached result when the thread took the lock: the word was left out
\* of the request
CachedInBatch(f) ==
    {i \in 1..(flights[f].next - 1) :
        /\ flights[f].entries[i].word \notin Range(flights[f].request)
        /\ word_lower(flights[f].entries[i].word) \in DOMAIN cache}

\* the messages that resolve message m by the verdict given
Resolved(m, verdict) ==
    <<[type |-> "DeleteReaction", message_id |-> m,
       reaction |-> EMOJI_QUESTION]>>
    \o (IF verdict
        THEN <<[type |-> "MarkWordValidity", message_id |-> m,
                reaction |-> "valid"],
               AddReaction(m, EMOJI_CHECK)>>
        ELSE <<AddReaction(m, EMOJI_CROSS)>>)

\* C29: when the call of a flush has failed, every word of its batch that
\* had a cached result is still resolved by that result: the question mark
\* is deleted and the word gets the check and MarkWordValidity(true), or the
\* cross, as the cache says.
CachedVerdictSurvivesFailure ==
    \A f \in 1..Len(flights) :
        flights[f].outcome = "error"
          => \A i \in CachedInBatch(f) :
                LET entry == flights[f].entries[i]
                IN  About(outbox[f], entry.message_id)
                      = Resolved(entry.message_id,
                                 cache[word_lower(entry.word)])

\* C31: the cache changes only in a step in which the call of a flush
\* returns a response; the keys it gains are the trimmed, lower-cased forms
\* of words of that response, each with the verdict the response gave. A
\* step in which a call fails leaves the cache as it was, every key of the
\* cache is a trimmed, lower-cased word, and no key is ever removed.
CacheGrowsByResponsesOnly ==
    /\ [][cache' # cache
            => \E f \in 1..Len(flights) :
                  /\ flights[f].pc = "call"
                  /\ flights'[f].outcome = "response"
                  /\ \A k \in DOMAIN cache' \ DOMAIN cache :
                        \E w \in DOMAIN flights'[f].results :
                           /\ w \in Range(flights[f].request)
                           /\ k = Normalize(w)
                           /\ cache'[k] = flights'[f].results[w]]_vars
    /\ [][(\E f \in 1..Len(flights) :
               flights[f].pc = "call" /\ flights'[f].outcome = "error")
            => cache' = cache]_vars
    /\ [][DOMAIN cache \subseteq DOMAIN cache']_vars
    /\ [](\A k \in DOMAIN cache : k = Normalize(k))

\* the call of one flush failed and the call of another was answered: the
\* cache holds the answered word and not the word of the failed request
FailedRequestNotCached ==
    \E f, g \in 1..Len(flights) :
        /\ flights[f].outcome = "error"
        /\ flights[g].outcome = "response"
        /\ DOMAIN cache # {}
        /\ \E w \in Range(flights[f].request) : Normalize(w) \notin DOMAIN cache
        /\ \E w \in Range(flights[g].request) : Normalize(w) \in DOMAIN cache

\* the entries of flush f that its thread has gone through and whose word
\* has a result, from the cache or from the response
ResolvedInBatch(f) ==
    {i \in 1..(flights[f].next - 1) :
        flights[f].entries[i].word \in DOMAIN flights[f].results}

\* the MarkWordValidity messages among msgs
Marks(msgs) == SelectSeq(msgs, LAMBDA x : x.type = "MarkWordValidity")

\* the entries of flush f that its thread has gone through and whose result
\* is a rejection
RejectedInBatch(f) ==
    {i \in ResolvedInBatch(f) :
        ~flights[f].results[flights[f].entries[i].word]}

Calling == {f \in 1..Len(flights) : flights[f].pc = "call"}

\* C37: at most one flush is calling the service at any time, and it is the
\* one holding the lock; a flush that wants the lock gets past it only when no
\* flush is calling, and then works with the cache as the earlier calls left
\* it: it requests no word whose key is in the cache and takes the cached
\* verdict for every word that has one
OneCallAtATime ==
    /\ [](Cardinality(Calling) <= 1)
    /\ [](\A f \in 1..Len(flights) : f \in Calling <=> mutex = f)
    /\ [][\A f \in 1..Len(flights) :
            (flights[f].pc = "lock" /\ flights'[f].pc # "lock")
              => /\ Calling = {}
                 /\ \A w \in Range(flights'[f].request) :
                       word_lower(w) \notin DOMAIN cache
                 /\ \A i \in 1..Len(flights[f].entries) :
                       LET w == flights[f].entries[i].word
                       IN  word_lower(w) \in DOMAIN cache
                             => /\ w \in DOMAIN flights'[f].results
                                /\ flights'[f].results[w]
                                     = cache[word_lower(w)]]_vars

\* C37 witness: the first flush is calling the service and holds the lock,
\* and a second flush with a word of the first one's request waits for the
\* lock
SecondFlushWaitsForLock ==
    /\ Len(flights) >= 2
    /\ flights[1].pc = "call"
    /\ mutex = 1
    /\ flights[2].pc = "lock"
    /\ \E i \in 1..Len(flights[2].entries) :
          flights[2].entries[i].word \in Range(flights[1].request)

\* the ValidateProperNoun of message m still waits in the mailbox
InMailbox(m) ==
    \E i \in 1..Len(mailbox) :
        /\ mailbox[i].type = "ValidateProperNoun"
        /\ mailbox[i].message_id = m

\* the places where message m is an entry: positions of the queue and
\* positions of the batches of the flushes
Places(m) ==
    {<<0, i>> : i \in {j \in 1..Len(queue) : queue[j].message_id = m}}
    \cup {p \in (1..Len(flights)) \X (1..max_batch_size) :
            /\ p[2] <= Len(flights[p[1]].entries)
            /\ flights[p[1]].entries[p[2]].message_id = m}

\* C39: a message that the actor has enqueued is an entry in exactly one
\* place, the queue or the batch of one flush, and a message still in the
\* mailbox in none; the batch of a flush never changes and no flush goes
\* away. So no entry is lost and none is in two batches, whatever the order
\* of the enqueues, the timer and the triggers.
EnqueuedExactlyOnce ==
    /\ [](\A m \in 1..sent :
            Cardinality(Places(m)) = IF InMailbox(m) THEN 0 ELSE 1)
    /\ [][/\ Len(flights') >= Len(flights)
          /\ \A f \in 1..Len(flights) :
                flights'[f].entries = flights[f].entries]_vars

\* C39 witness: three messages went into two batches, and a trigger sent
\* when there was something to flush is still in the mailbox with the queue
\* empty
ThreeEntriesTwoBatchesSpareTrigger ==
    /\ sent = 3
    /\ Len(flights) = 2
    /\ queue = << >>
    /\ \A m \in 1..3 : Places(m) # {}
    /\ mailbox # << >>
    /\ Head(mailbox) = TriggerBatchValidation

\* the thread of flush f has sent its request and waits for the response
InFlight(f) == flights[f].pc = "call"

\* C17: while the call of a flush is outstanding the actor still handles its
\* mailbox: a ValidateProperNoun at the head is enqueued and a trigger at the
\* head is handled, and handling a trigger only spawns the thread, without
\* taking the lock or touching the cache.
EnqueueWhileInFlight ==
    /\ []((\E f \in 1..Len(flights) : InFlight(f)) /\ mailbox # << >>
            => IF Head(mailbox).type = "ValidateProperNoun"
               THEN ENABLED HandleValidateProperNoun
               ELSE ENABLED HandleTriggerBatchValidation)
    /\ [][Flushes => /\ flights'[Len(flights')].pc = "lock"
                     /\ mutex' = mutex
                     /\ cache' = cache]_vars

\* the first flush waits for the service and the third word, sent after its
\* two, is in the queue
QueuedBehindOutstandingCall ==
    /\ Len(flights) = 1
    /\ InFlight(1)
    /\ mutex = 1
    /\ Len(queue) = 1
    /\ queue[1].message_id = 3

\* message m is an entry of the queue
InQueue(m) == \E i \in 1..Len(queue) : queue[i].message_id = m

\* message m is an entry of the batch of some flush
Dispatched(m) ==
    \E f \in 1..Len(flights) : \E i \in 1..Len(flights[f].entries) :
        flights[f].entries[i].message_id = m

\* C16: with the timer firing, the actor handling its mailbox and time
\* passing, every entry of the queue is in the end popped into the batch of
\* a flush, also when it stays alone in the queue.
EveryEntryFlushed ==
    \A m \in 1..MaxSends : InQueue(m) ~> Dispatched(m)

\* the only word ever sent was flushed alone
LoneEntryFlushed ==
    /\ sent = 1
    /\ mailbox = << >>
    /\ Len(flights) = 1
    /\ Len(flights[1].entries) = 1
    /\ Dispatched(1)

(***************************************************************************)
(* Properties of the whole pipeline (SpecPipe)                             *)
(***************************************************************************)

\* C13: whatever the order in which the threads of the words, the triggers
\* and the flush threads run, the MessageReactionActor is sent at most one
\* terminal reaction (check or cross) for every message delivered.
AtMostOneTerminal ==
    \A m \in 1..delivered : Cardinality(Terminals(m)) <= 1

\* two messages got their terminal reaction, the first from its own thread
\* and the second from a flush thread
TerminalFromThreadAndFlush ==
    /\ delivered = 2
    /\ threads[1].pc = "done" /\ threads[1].is_in_dictionary
    /\ \A m \in 1..2 : Cardinality(Terminals(m)) = 1
    /\ \E f \in 1..Len(flights) :
          /\ flights[f].pc = "done"
          /\ flights[f].entries[1].message_id = 2

\* a step in which the GameStateActor handles the ValidateGameRules at the
\* head of its mailbox, and does not drop it as abandoned
HandlesValidateGameRules ==
    /\ game_mailbox # << >>
    /\ Head(game_mailbox).type = "ValidateGameRules"
    /\ game_mailbox' = Tail(game_mailbox)
    /\ ~(/\ threads[Head(game_mailbox).message_id].pc \in {"timeout", "error"}
         /\ UNCHANGED <<op, gameVars, rulesVars>>)

\* the thread of message t has received the reply "rejected"
RuleRejected(t) == threads[t].reply = Some(FALSE)

\* the thread of message t has received the reply "accepted"
RuleAccepted(t) == threads[t].reply = Some(TRUE)

\* message t is on its way to a flush, waits in the queue or is in a batch
Enqueued(t) ==
    \/ \E i \in 1..Len(mailbox) :
          /\ mailbox[i].type = "ValidateProperNoun"
          /\ mailbox[i].message_id = t
    \/ InQueue(t)
    \/ Dispatched(t)

\* a MarkWordValidity for message t waits in the mailbox of the
\* GameStateActor or is the message it handled last
MarkSent(t) ==
    \/ \E i \in 1..Len(game_mailbox) :
          /\ game_mailbox[i].type = "MarkWordValidity"
          /\ game_mailbox[i].message_id = t
    \/ (op.name = "MarkWordValidity" /\ op.mid = t)

\* C22: a ValidateGameRules that rejects its candidate leaves
\* last_game_rule_word, last_valid_word, used_words and the history as they
\* were; the thread that receives the rejection sends the cross for its
\* message and nothing else to the MessageReactionActor, and its message is
\* never sent to the LLMValidatorActor and never the subject of a
\* MarkWordValidity.
RejectionChangesNothing ==
    /\ [][(HandlesValidateGameRules /\ op'.result = "false")
            => UNCHANGED <<last_game_rule_word, last_valid_word, used_words,
                           word_history>>]_vars
    /\ [](\A t \in 1..Len(threads) :
            RuleRejected(t)
              => /\ About(sink, t) = IF threads[t].pc = "done"
                                     THEN <<AddReaction(t, EMOJI_CROSS)>>
                                     ELSE << >>
                 /\ ~Enqueued(t)
                 /\ ~MarkSent(t))

\* the second word was two letters away from the first, was rejected as a
\* rule violation and got the cross
RuleViolationCrossed ==
    /\ Len(threads) = 2
    /\ RuleRejected(2)
    /\ threads[2].pc = "done"
    /\ Terminals(2) # {}
    /\ last_game_rule_word # None
    /\ validate_move(used_words, last_game_rule_word[1], threads[2].word).result
          = "RuleViolation"

\* the normalized word is empty or has a character that is not a letter
Filtered(word) ==
    word = << >> \/ \E i \in 1..Len(word) : ~IsAlphabetic(word[i])

\* some message to the GameStateActor, waiting or registered, is about
\* message t
KnownToGameState(t) ==
    \/ \E i \in 1..Len(game_mailbox) :
          /\ game_mailbox[i].type # "ResetGame"
          /\ game_mailbox[i].message_id = t
    \/ \E i \in 1..Len(registered) : registered[i].message_id = t
    \/ \E i \in 1..Len(word_history) : word_history[i].message_id = t

\* C23: the delivery of a text whose trimmed, lower-cased form is empty or
\* has a character that is not a letter changes nothing but the count of
\* deliveries: the history, the reference words, used_words, the queue and
\* the mailboxes stay as they were, and at no later time is there a
\* RegisterWord, a ValidateGameRules, a ValidateProperNoun, a queue entry or
\* a reaction for that message.
FilteredWordLeavesNoTrace ==
    /\ [][(delivered' = delivered + 1 /\ Filtered(threads'[delivered'].word))
            => UNCHANGED <<gameVars, rulesVars, batchVars, game_mailbox,
                           sink>>]_vars
    /\ [](\A t \in 1..Len(threads) :
            Filtered(threads[t].word)
              => /\ threads[t].pc = "skipped"
                 /\ ~KnownToGameState(t)
                 /\ ~Enqueued(t)
                 /\ About(sink, t) = << >>)

\* a blank text and a text with a blank between two letters were delivered
\* and both were dropped
BlankAndSpacedTextsDropped ==
    /\ delivered = 2
    /\ \E t \in 1..2 : threads[t].word = << >>
    /\ \E t \in 1..2 : threads[t].word = <<"a", " ", "b">>
    /\ game_mailbox = << >>
    /\ sink = << >>

\* a step in which the thread of message t acts on the reply it received
Finishes(t) == threads[t].pc = "replied" /\ threads'[t].pc = "done"

\* C24: the thread of a word that ValidateGameRules accepted and that
\* is_valid_word finds in the dictionary sends the check for its message and
\* MarkWordValidity(message_id, true), in one step; the question mark is
\* never sent for the message and the message is never sent to the
\* LLMValidatorActor.
DictionaryWordConfirmedAtOnce ==
    /\ [][\A t \in 1..Len(threads) :
            (/\ Finishes(t)
             /\ RuleAccepted(t)
             /\ is_valid_word(dictionary, threads[t].word))
            => /\ sink' = Append(sink, AddReaction(t, EMOJI_CHECK))
               /\ game_mailbox' =
                      Append(game_mailbox,
                             [type |-> "MarkWordValidity", message_id |-> t,
                              is_valid |-> TRUE])
               /\ UNCHANGED <<mailbox, queue>>]_vars
    /\ [](\A t \in 1..Len(threads) :
            (RuleAccepted(t) /\ is_valid_word(dictionary, threads[t].word))
              => /\ About(sink, t) = IF threads[t].pc = "done"
                                     THEN <<AddReaction(t, EMOJI_CHECK)>>
                                     ELSE << >>
                 /\ ~Enqueued(t))

\* the word of the dictionary came second, was accepted and got the check,
\* and its MarkWordValidity has made it last_valid_word
DictionaryWordMarkedValid ==
    /\ Len(threads) = 2
    /\ RuleAccepted(2)
    /\ threads[2].pc = "done"
    /\ is_valid_word(dictionary, threads[2].word)
    /\ About(sink, 2) = <<AddReaction(2, EMOJI_CHECK)>>
    /\ op.name = "MarkWordValidity"
    /\ op.mid = 2
    /\ last_valid_word = Some(threads[2].word)

\* the ValidateProperNoun messages and the entries for message t, wherever
\* they are: in the mailbox, in the queue or in the batch of a flush
EntriesFor(t) ==
    {<<"mailbox", i>> : i \in {j \in 1..Len(mailbox) :
                                  /\ mailbox[j].type = "ValidateProperNoun"
                                  /\ mailbox[j].message_id = t}}
    \cup {<<"queue", i>> : i \in {j \in 1..Len(queue) :
                                     queue[j].message_id = t}}
    \cup {<<f, i>> \in (1..Len(flights)) \X (1..max_batch_size) :
              /\ i <= Len(flights[f].entries)
              /\ flights[f].entries[i].message_id = t}

\* the words of the messages and entries for message t
EntryWordsFor(t) ==
    {mailbox[j].word : j \in {j \in 1..Len(mailbox) :
                                 /\ mailbox[j].type = "ValidateProperNoun"
                                 /\ mailbox[j].message_id = t}}
    \cup {queue[j].word : j \in {j \in 1..Len(queue) :
                                    queue[j].message_id = t}}
    \cup UNION {{flights[f].entries[i].word :
                    i \in {j \in 1..Len(flights[f].entries) :
                              flights[f].entries[j].message_id = t}} :
                f \in 1..Len(flights)}

\* capitalized is word with its first letter in upper case and the others
\* as they are
FirstLetterUpper(word, capitalized) ==
    /\ Len(capitalized) = Len(word)
    /\ \A i \in 1..Len(word) :
          capitalized[i] = IF i = 1 THEN UpperChar(word[1]) ELSE word[i]

\* C25: the thread of a word that ValidateGameRules accepted and that
\* is_valid_word does not find in the dictionary sends the question mark for
\* its message and one ValidateProperNoun with the message id and the
\* normalized word with its first letter in upper case; it sends no check, no
\* cross and no MarkWordValidity, and from then on exactly one entry for the
\* message exists, in the mailbox, the queue or the batch of a flush.
UnknownWordAskedOnce ==
    /\ [][\A t \in 1..Len(threads) :
            (/\ Finishes(t)
             /\ RuleAccepted(t)
             /\ ~is_valid_word(dictionary, threads[t].word))
            => /\ sink' = Append(sink, AddReaction(t, EMOJI_QUESTION))
               /\ Len(mailbox') = Len(mailbox) + 1
               /\ SubSeq(mailbox', 1, Len(mailbox)) = mailbox
               /\ mailbox'[Len(mailbox')].type = "ValidateProperNoun"
               /\ mailbox'[Len(mailbox')].message_id = t
               /\ FirstLetterUpper(threads[t].word,
                                   mailbox'[Len(mailbox')].word)
               /\ UNCHANGED <<game_mailbox, queue>>]_vars
    /\ [](\A t \in 1..Len(threads) :
            (RuleAccepted(t) /\ ~is_valid_word(dictionary, threads[t].word))
              => /\ Cardinality(EntriesFor(t))
                       = IF threads[t].pc = "done" THEN 1 ELSE 0
                 /\ \A w \in EntryWordsFor(t) :
                       FirstLetterUpper(threads[t].word, w)
                 /\ threads[t].pc = "replied" => About(sink, t) = << >>
                 /\ threads[t].pc = "done"
                       => Head(About(sink, t)) = AddReaction(t, EMOJI_QUESTION))

\* a word of three letters that is not in the dictionary was accepted, got
\* the question mark and waits in the queue with its first letter in upper
\* case
UnknownWordQueuedCapitalized ==
    /\ Len(threads) >= 1
    /\ threads[1].word = <<"a", "b", "b">>
    /\ threads[1].pc = "done"
    /\ About(sink, 1) = <<AddReaction(1, EMOJI_QUESTION)>>
    /\ queue = <<[word |-> <<"A", "b", "b">>, message_id |-> 1]>>

\* a step in which the GameStateActor handles the ResetGame at the head of
\* its mailbox
HandlesResetGame ==
    /\ game_mailbox # << >>
    /\ Head(game_mailbox).type = "ResetGame"
    /\ game_mailbox' = Tail(game_mailbox)

\* C27: the handler of ResetGame leaves the history empty, used_words empty
\* and last_game_rule_word and last_valid_word None. From then until the
\* next ValidateGameRules is handled last_game_rule_word stays None, and
\* with it last_valid_word stays None and used_words empty, so that this
\* ValidateGameRules accepts its candidate whatever it is and makes it
\* last_game_rule_word.
ResetStartsOver ==
    /\ [][HandlesResetGame
            => /\ word_history' = << >>
               /\ used_words' = {}
               /\ last_game_rule_word' = None
               /\ last_valid_word' = None]_vars
    /\ [](last_game_rule_word = None
            => last_valid_word = None /\ used_words = {})
    /\ [][(last_game_rule_word = None /\ ~HandlesValidateGameRules)
            => last_game_rule_word' = None]_vars
    /\ [][(HandlesValidateGameRules /\ last_game_rule_word = None)
            => /\ op'.result = "true"
               /\ last_game_rule_word' = Some(Head(game_mailbox).word)]_vars

\* the same word was accepted for both messages, once before and once after
\* the ResetGame
UsedWordAcceptedAfterReset ==
    /\ Len(threads) = 2
    /\ RuleAccepted(1)
    /\ RuleAccepted(2)
    /\ threads[1].word = threads[2].word
    /\ resets = 1
    /\ op.name = "ValidateGameRules"
    /\ used_words = {threads[2].word}

\* C30: for every entry of a batch that has a result, from the cache or from
\* the response, the flush thread sends for its message, in this order,
\* DeleteReaction(question mark) and then, with the result true,
\* MarkWordValidity(true) and AddReaction(check), or, with the result false,
\* AddReaction(cross); and the MessageReactionActor is sent for the message
\* the question mark of the word's own thread first, then these reactions
\* and no other.
ResolvedInOrder ==
    \A f \in 1..Len(flights) : \A i \in ResolvedInBatch(f) :
        LET entry == flights[f].entries[i]
            m == entry.message_id
            verdict == flights[f].results[entry.word]
        IN  /\ About(outbox[f], m) = Resolved(m, verdict)
            /\ About(sink, m)
                 = <<AddReaction(m, EMOJI_QUESTION),
                     [type |-> "DeleteReaction", message_id |-> m,
                      reaction |-> EMOJI_QUESTION],
                     AddReaction(m, IF verdict THEN EMOJI_CHECK
                                    ELSE EMOJI_CROSS)>>

\* one flush was answered by the service, and another flush made no call
\* and confirmed every word of its batch from the cache
ConfirmedFromCache ==
    \E f, g \in 1..Len(flights) :
        /\ flights[f].outcome = "response"
        /\ flights[g].outcome = "cached"
        /\ flights[g].pc = "done"
        /\ ResolvedInBatch(g) # {}
        /\ \A i \in ResolvedInBatch(g) :
              flights[g].results[flights[g].entries[i].word]

\* the thread of message t gave up: its wait timed out or ended in an error
Abandoned(t) == threads[t].pc \in {"timeout", "error"}

\* C32: a thread whose wait for the reply to ValidateGameRules timed out or
\* ended in an error stays as it is and sends nothing: there is no reaction
\* for its message, no ValidateProperNoun and no queue entry for it, no
\* MarkWordValidity for it, and the history entry of the message is never
\* valid, also when the GameStateActor handles the request afterwards and
\* accepts the word.
AbandonedRequestSendsNothing ==
    /\ [](\A t \in 1..Len(threads) :
            Abandoned(t)
              => /\ About(sink, t) = << >>
                 /\ ~Enqueued(t)
                 /\ ~MarkSent(t)
                 /\ \A i \in 1..Len(word_history) :
                       word_history[i].message_id = t
                         => ~word_history[i].is_valid)
    /\ [][\A t \in 1..Len(threads) :
            Abandoned(t) => threads'[t] = threads[t]]_vars

\* the wait of the first thread timed out, the GameStateActor then handled
\* its request and accepted the word, which is last_game_rule_word and in
\* the history, not valid and with no reaction
TimedOutWordAcceptedUnseen ==
    /\ Len(threads) >= 1
    /\ threads[1].pc = "timeout"
    /\ last_game_rule_word = Some(threads[1].word)
    /\ \E i \in 1..Len(word_history) :
          word_history[i].message_id = 1 /\ ~word_history[i].is_valid
    /\ About(sink, 1) = << >>
    /\ game_mailbox = << >>

\* C35: with the WordValidatorActor and the flush threads as the only senders
\* (and ResetGame sent at any point), last_valid_word is set only while
\* last_game_rule_word is set, and the reference word of every
\* ValidateGameRules that is handled is last_game_rule_word (None for the
\* first word), never last_valid_word
ConfirmedWordHasRuleWord ==
    /\ [](last_valid_word # None => last_game_rule_word # None)
    /\ [][HandlesValidateGameRules
            => op'.previous = last_game_rule_word]_vars

\* C35 witness: the first word was confirmed after the second one had been
\* accepted, so that the confirmed word and the rule word differ
ConfirmedWordBehindRuleWord ==
    /\ Len(threads) = 2
    /\ op.name = "MarkWordValidity"
    /\ last_valid_word = Some(threads[1].word)
    /\ last_game_rule_word = Some(threads[2].word)
    /\ threads[1].word # threads[2].word

\* the ValidateGameRules of message t is still to be handled: its thread has
\* not sent it yet, or it waits in the mailbox of the GameStateActor
RuleCheckOutstanding(t) ==
    \/ threads[t].pc = "send"
    \/ \E i \in 1..Len(game_mailbox) :
          /\ game_mailbox[i].type = "ValidateGameRules"
          /\ game_mailbox[i].message_id = t

\* C36: when the GameStateActor handles the ValidateGameRules of a message,
\* the ValidateGameRules of no message delivered earlier to the
\* WordValidatorActor is still to be handled: the rule checks are made in
\* the order of the deliveries, which is the order of the RegisterWord
\* messages.
RuleChecksInDeliveryOrder ==
    [][HandlesValidateGameRules
         => \A t \in 1..Len(threads) :
               t < Head(game_mailbox).message_id
                 => ~RuleCheckOutstanding(t)]_vars

\* a step in which the GameStateActor handles a MarkWordValidity(true) that a
\* flush has sent for message m, a word the service has confirmed
HandlesConfirmation(m) ==
    /\ game_mailbox # << >>
    /\ Head(game_mailbox) = [type |-> "MarkWordValidity", message_id |-> m,
                             is_valid |-> TRUE]
    /\ game_mailbox' = Tail(game_mailbox)
    /\ ~threads[m].is_in_dictionary

\* C38: when the GameStateActor handles the MarkWordValidity(true) that a
\* flush has sent for a word the service confirmed, and no ResetGame has been
\* sent, last_valid_word becomes that word, however many words were
\* registered while it was pending.
ConfirmedWordRecorded ==
    [][\A m \in 1..Len(threads) :
          (HandlesConfirmation(m) /\ resets = 0)
            => last_valid_word' = Some(threads[m].word)]_vars

\* the messages that have been sent the check mark
Succeeded ==
    {sink[k].message_id : k \in {j \in 1..Len(sink) :
                                    /\ sink[j].type = "AddReaction"
                                    /\ sink[j].reaction = EMOJI_CHECK}}

\* the service, or the cache, has confirmed the word of message m: some flush
\* has an entry for m whose result is isProperNoun = true
ConfirmedByFlush(m) ==
    \E f \in 1..Len(flights) : \E i \in 1..Len(flights[f].entries) :
        LET entry == flights[f].entries[i]
        IN  /\ entry.message_id = m
            /\ flights[f].outcome \in {"response", "cached"}
            /\ entry.word \in DOMAIN flights[f].results
            /\ flights[f].results[entry.word]

\* C40: a message is sent the check mark only if its word passed the filter,
\* its thread received the reply "accepted" to ValidateGameRules, and the
\* word is in the dictionary or a flush has the result isProperNoun = true
\* for it, from the service or from the cache. A filtered, rule-rejected,
\* timed-out or unresolved word is never sent the check mark.
SuccessOnlyWhenEarned ==
    \A m \in Succeeded :
        /\ m \in 1..Len(threads)
        /\ ~Filtered(threads[m].word)
        /\ ~Abandoned(m)
        /\ RuleAccepted(m)
        /\ threads[m].is_in_dictionary \/ ConfirmedByFlush(m)

\* C40 witness: both messages were sent the check mark, the first for a word
\* of the dictionary and the second for a word a flush confirmed
CheckByDictionaryAndByFlush ==
    /\ Succeeded = {1, 2}
    /\ threads[1].is_in_dictionary
    /\ ~threads[2].is_in_dictionary
    /\ ConfirmedByFlush(2)

\* C15: the word list of every request to the service holds pairwise
\* distinct words, also when a ResetGame lets a word that is still queued be
\* accepted and queued again.
RequestWordsDistinct ==
    \A f \in 1..Len(flights) :
        \A i, j \in 1..Len(flights[f].request) :
            i # j => flights[f].request[i] # flights[f].request[j]

====
